---- MODULE Spec2Model ----
(***************************************************************************)
(* Node execution and frame-flow runtime of phaneron:                      *)
(*   - Channel / ChannelSemaphore / ChannelSemaphoreProvider (channel.rs)  *)
(*   - VideoPipe / AudioPipe / VideoOutput / AudioOutput (compute/*.rs)    *)
(*   - NodeRunContext, NodeContextImpl, ProcessFrameContextImpl, run_node  *)
(*     (node_context.rs)                                                   *)
(*   - PhaneronState::make_video_connection / make_audio_connection        *)
(*     (state.rs)                                                          *)
(*                                                                         *)
(* The nodes P, M, C exist with their run_node tasks (the state add_node   *)
(* leaves). What a node declares, and what the control plane asks for, is  *)
(* input; it is drawn from four scenarios:                                 *)
(*   "chain"  P{out pv} -> M{in mv, out mo} -> C{in ci}                    *)
(*   "fan"    P{out pv} -> M{in mv} and C{in ci}                           *)
(*   "av"     P{out pv, later out pa} -> M{in mv, later in ma}             *)
(*   "pair"   P{out pv} -> C{in ci}, with nodes that call submit() again   *)
(*            and keep the FrameContext beyond the invocation; the control *)
(*            plane also names the absent node M in two requests           *)
(* Node behaviour (plugin code) is the environment: inside process_frame a *)
(* node may call submit() any number of times, push at most one frame on   *)
(* each of its outputs, and return.                                        *)
(*                                                                         *)
(* PoolSpec is the image pool of PhaneronComputeContext (compute.rs).      *)
(* RegistrySpec is the registry (state.rs): it starts with graph G1 and no *)
(* node; add_node creates P (type "generator": declares output pv, rejects *)
(* its initial state) and C (type "idle": no inputs or outputs, accepts    *)
(* it), set_node_state sets pending states, the schedulers of P and C run, *)
(* handle_node_events and handle_state / notify_state publish snapshots    *)
(* to the subscriber.                                                      *)
(* PendingStateSpec is the registry with one scheduler applying pending    *)
(* states; ConnectionSpec is the registry making and listing               *)
(* connections.                                                            *)
(* BlackSpec is the scheduler of scenario "black" (P{out pv} -> C{in ci},  *)
(* one more iteration), where the consumer receives frames of growing size *)
(* and keeps its substitute black frame. FailureSpec adds what can go      *)
(* wrong in an iteration: process_frame panics, a channel is dropped.      *)
(* AudioSpec is the pair of audio converters ToAudioF32 / FromAudioF32     *)
(* (io.rs) run on one frame, as io/tests.rs runs them.                     *)
(* ConnectionLiveSpec is ConnectionSpec with the registry's event task     *)
(* scheduled fairly. LockSpec follows the tokio Mutexes that the control   *)
(* plane calls, the scheduler of a node and the registry's event handlers  *)
(* take and release. StaggeredSpec is the scheduler in the scenarios       *)
(* "twin" (P{out pv} -> both inputs ci and cj of C) and "fan", with well   *)
(* behaved nodes and every task scheduled fairly. SubscriberSpec is the    *)
(* registry with two snapshot subscribers that may drop their receivers.   *)
(***************************************************************************)
EXTENDS Integers, Sequences, FiniteSets, TLC

\* ------------------------------------------------------------------ bounds
MaxTicks == 2        \* process_frame invocations per node
MaxSubmitErrs == 1   \* submit() calls that are not the first on their context, in total
MaxImages == 4       \* create_image calls
MaxHolders == 2      \* clones of one VideoFrame alive at a time
MaxSetState == 1     \* set_node_state calls
MaxSamples == 2      \* samples of an audio frame that is converted

\* --------------------------------------------------------------- topology
Nodes == {"P", "M", "C"}
VideoOutputIds == {"pv", "mo"}

VideoInputIds == {"mv", "ci", "cj"}

OutputIds ==
  LET AudioOutputIds == {"pa"}
  IN
               VideoOutputIds \cup AudioOutputIds
InputIds ==
  LET AudioInputIds == {"ma"}
  IN
              VideoInputIds \cup AudioInputIds

NodeOf(port) ==
    CASE port \in {"pv", "pa"} -> "P"
      [] port \in {"mv", "ma", "mo"} -> "M"
      [] OTHER -> "C"

KindOf(port) == IF port \in VideoOutputIds \cup VideoInputIds THEN "video" ELSE "audio"


\* ports declared during initialise (registered by add_node before run_node)
InitialPorts(sc) ==
    CASE sc = "chain" -> {"pv", "mv", "mo", "ci"}
      [] sc = "fan" -> {"pv", "mv", "ci"}
      [] sc \in {"pair", "black"} -> {"pv", "ci"}
      [] sc = "twin" -> {"pv", "ci", "cj"}
      [] sc \in {"reg", "state", "subs"} -> {}
      [] OTHER -> {"pv", "mv"}

\* ports a node declares after its scheduler has started (NodeContext is a
\* shared handle the plugin keeps, so it can declare I/O at any time)
LatePorts(sc) == IF sc = "av" THEN {"pa", "ma"} ELSE {}

\* the make_*_connection calls the control plane issues, each once, in any
\* order and at any time: (from output, to input)
Requests(sc) ==
    CASE sc = "chain" -> {[k |-> 1, from |-> "pv", to |-> "mv"], [k |-> 2, from |-> "mo", to |-> "ci"],
                          [k |-> 3, from |-> "mo", to |-> "ci"]}
      [] sc = "fan" -> {[k |-> 1, from |-> "pv", to |-> "mv"], [k |-> 2, from |-> "pv", to |-> "ci"]}
      [] sc = "pair" -> {[k |-> 1, from |-> "pv", to |-> "ci"], [k |-> 2, from |-> "mo", to |-> "ci"],
                         [k |-> 3, from |-> "pv", to |-> "mv"]}
      [] sc \in {"reg", "state", "subs"} -> {}
      [] sc = "black" -> {[k |-> 1, from |-> "pv", to |-> "ci"]}
      [] sc = "twin" -> {[k |-> 1, from |-> "pv", to |-> "ci"], [k |-> 2, from |-> "pv", to |-> "cj"]}
      [] OTHER -> {[k |-> 1, from |-> "pv", to |-> "mv"], [k |-> 2, from |-> "pa", to |-> "ma"]}


None == "none"

\* ------------------------------------------------------------------ state
VARIABLES
    scenario,               \* which declarations and requests this run draws
    \* NodeRunContextInner
    audio_input_ids, video_input_ids, audio_outputs, video_outputs,
    connected_audio_pipes, connected_video_pipes, pending_state,
    node_event_rx,          \* NodeEvent queue NodeContextImpl -> run_node
    state_tx,               \* NodeStateEvent queue to the registry
    \* Channel and pipes
    senders,                \* ChannelInner.senders of each output's channel
    receiver,               \* the mpsc receivers (pipes), by subscription number
    semaphores,             \* ChannelSemaphoreProviderInner.semaphores per node
    sem,                    \* state of every oneshot created by get_semaphore
    \* run_node locals
    pc, idx, run_node_context, upstream_semaphores, downstream_semaphores,
    audio_frames, video_frames, previous_black_frame, previous_silence_frame,
    \* the process_frame call in flight
    submitted, frame_context, submit_calls, last_submit, pushed, sending,
    \* control plane
    pending_conn, audio_connections, video_connections, requested,
    make_connection_result, \* history: how each make_*_connection call ended
    last_connect,           \* history: the latest connect_*_pipe call
    \* history
    started, completed, sent, yielded, process_log, signals, tick_sems, tick_upstream,
    black_created, submit_errs,
    \* PhaneronComputeContextInner: the image pool
    video_buffers,          \* Vec<VideoBuffer>; slot k of the Vec is element k + 1
    buffer_drop_event_rx,   \* indices sent by Drop for VideoBufferRef
    video_buffer_refs,      \* every VideoBufferRef made, with its Arc strong count
    last_image,             \* history: the latest create_image call
    drained,                \* history: the slots the release task has marked
    \* PhaneronStateInner: the registry
    graphs,                 \* GraphId -> node list
    nodes,                  \* NodeId -> node type
    node_states,            \* NodeId -> state string
    node_event_handled,     \* how many events of state_tx handle_node_events has received
    state_event_rx,         \* unread () messages of the broadcast channel to handle_state
    state_event_lagged,     \* the channel has overwritten an unread message
    state_representation,   \* notify_state: the snapshot built and not yet sent, or None
    subscribers_to_state,   \* per subscriber: the unread snapshot of its channel, or None
    state_rx,               \* per subscriber: the snapshot it received last
    observed,               \* history: per subscriber, the node ids of the snapshots received before that
    last_add_node,          \* history: the latest add_node call
    set_node_state_calls,   \* history: number of set_node_state calls
    apply_state_calls,      \* history: per node, the states Node::apply_state was called with
    panicked,               \* history: per node, a process_frame of the node has panicked
    to_audio_f32,           \* ToAudioF32.audio_format (channel_layout is Mono)
    from_audio_f32,         \* FromAudioF32.audio_format (channel_layout is Mono)
    audio_samples,          \* history: the samples the input bytes were written from
    audio_input,            \* the interleaved bytes handed to ToAudioF32::load_frame
    loaded_audio,           \* LoadedAudioFrame.audio
    audio_buffers,          \* AudioFrame.buffers[0], the f32 samples of the one channel
    consumed_buffer,        \* ConsumedAudioFrame.buffer
    copied_frame,           \* the bytes FromAudioF32::copy_frame returned
    io_pc,                  \* how far the conversion of the frame has got
    tasks                   \* per task: the operation it runs, how far it is, the locks it holds

ctxVars == <<audio_input_ids, video_input_ids, audio_outputs, video_outputs,
             connected_audio_pipes, connected_video_pipes, pending_state,
             node_event_rx, state_tx>>
chanVars == <<senders, receiver, semaphores, sem>>
runVars == <<pc, idx, run_node_context, upstream_semaphores, downstream_semaphores,
             audio_frames, video_frames, previous_black_frame, previous_silence_frame>>
procVars == <<submitted, frame_context, submit_calls, last_submit, pushed, sending>>
ctlVars == <<scenario, pending_conn, audio_connections, video_connections, requested,
             make_connection_result, last_connect>>
histVars == <<started, completed, sent, yielded, process_log, signals, tick_sems, tick_upstream,
              black_created, submit_errs>>
poolVars == <<video_buffers, buffer_drop_event_rx, video_buffer_refs, last_image, drained>>
nodeVars == <<ctxVars, chanVars, runVars, procVars, ctlVars, histVars>>
registryVars == <<graphs, nodes, node_states, node_event_handled, state_event_rx, state_event_lagged,
             state_representation, subscribers_to_state, state_rx, observed, last_add_node,
             set_node_state_calls>>
ioVars == <<to_audio_f32, from_audio_f32, audio_samples, audio_input, loaded_audio, audio_buffers,
            consumed_buffer, copied_frame, io_pc>>
regVars == <<registryVars, apply_state_calls, panicked, ioVars, tasks>>
vars == <<nodeVars, poolVars, regVars>>

\* ---------------------------------------------------------------- helpers
Empty == [x \in {} |-> None]

Put(f, k, v) == [x \in DOMAIN f \cup {k} |-> IF x = k THEN v ELSE f[x]]

Range(s) == {s[i] : i \in DOMAIN s}

SeqOfSet(S) == CHOOSE s \in [1..Cardinality(S) -> S] : Range(s) = S


\* absent values (Option::None) of each type
NoFrame == [id |-> None, n |-> 0, width |-> 0, height |-> 0, tick |-> 0]
NoBlack == [width |-> 0, height |-> 0, frame |-> NoFrame]
NoSend == [out |-> None, frame |-> NoFrame, i |-> 0]
NoConn == [pipe |-> 0, to |-> None, k |-> 0]
NoConnect == [to |-> None, pipe |-> 0, result |-> None, declared |-> FALSE, before |-> Empty]
\* no representation: notify_state is not running / the channel holds nothing unread
NoState == [nodes |-> Empty, connections |-> Empty, output_to_input_connections |-> Empty, absent |-> TRUE]
\* what is left of a broadcast Receiver that was dropped, and of the task of
\* handle_state when notify_state has panicked
Gone == [nodes |-> Empty, connections |-> Empty, output_to_input_connections |-> Empty, gone |-> TRUE]
NoAddNode == [graph |-> None, node |-> None, result |-> None]
NoImage == [index |-> 0, width |-> 0, height |-> 0, len |-> 0, fits |-> {}]

\* ChannelSemaphore for the delivery of production n to pipe p
Semaphore(p, n) == <<p, n>>

\* a ChannelSemaphore (the oneshot Sender) is dropped without signal(): the
\* oneshot Receiver held by the producer resolves with an error
\* (variant: the Receiver stays pending)
ChannelSemaphore_drop_leaks == "pending"

ChannelSemaphore_drop == "dropped"

\* ------------------------------------------------------------------- Init
GraphIds == {"G1", "G2"}

\* the node type add_node is given for a node id, and the types the plugins
\* provide (PluginManager::nodes_provided_by_plugins)
NodeType(n) ==
    CASE n = "P" -> "generator"
      [] n = "C" -> "idle"
      [] OTHER -> "unheard_of"

nodes_provided_by_plugins == {"generator", "idle"}

\* the tasks whose locking is followed: two calls of the control plane at a
\* time, the scheduler of node C, the registry's handle_node_events
Tasks == {"A1", "A2", "S", "H"}

\* a task that is between operations
Idle == [name |-> "idle", n |-> None, m |-> None, pos |-> 0, held |-> <<>>]

\* the state after add_grah("G1") and add_node for the nodes of the scenario:
\* the inputs and outputs declared during initialise are registered, nothing
\* is connected, no initial state was accepted, no task is inside an operation
InitRest(S) ==
  \* the nodes add_node has created, each with its run_node task
  LET Running(sc) ==
          CASE sc = "av" -> {"P", "M"}
            [] sc = "pair" -> {"P", "C"}
            [] sc \in {"reg", "subs"} -> {}
            [] sc = "state" -> {"C"}
            [] sc \in {"black", "twin"} -> {"P", "C"}
            [] OTHER -> Nodes
      \* the NodeStateEvents of the ports declared in initialize, which add_node
      \* made the runtime contexts emit; the registry has handled them
      InitialEvents(sc) ==
          LET ports == SeqOfSet(InitialPorts(sc))
          IN  [j \in 1..Len(ports) |->
                  [type |-> IF ports[j] \in VideoInputIds THEN "VideoInputAdded" ELSE "VideoOutputAdded",
                   node |-> NodeOf(ports[j]), id |-> ports[j]]]
  IN
      /\ scenario \in S
      /\ graphs = [g \in {"G1"} |-> SeqOfSet(Running(scenario))]
      /\ nodes = [n \in Running(scenario) |-> NodeType(n)]
      /\ node_states = Empty
      /\ node_event_handled = Len(InitialEvents(scenario))
      /\ state_event_rx = 0
      /\ state_event_lagged = FALSE
      /\ state_representation = NoState
      /\ subscribers_to_state = <<>>
      /\ state_rx = <<>>
      /\ observed = <<>>
      /\ last_add_node = NoAddNode
      /\ set_node_state_calls = 0
      /\ apply_state_calls = [n \in Nodes |-> <<>>]
      /\ panicked = [n \in Nodes |-> FALSE]
      /\ tasks = [t \in Tasks |-> Idle]
      /\ audio_input_ids = [n \in Nodes |-> <<>>]
      /\ video_input_ids = [n \in Nodes |-> SeqOfSet({i \in InitialPorts(scenario) \cap VideoInputIds : NodeOf(i) = n})]
      /\ audio_outputs = [n \in Nodes |-> {}]
      /\ video_outputs = [n \in Nodes |-> {o \in InitialPorts(scenario) \cap VideoOutputIds : NodeOf(o) = n}]
      /\ connected_audio_pipes = [n \in Nodes |-> Empty]
      /\ connected_video_pipes = [n \in Nodes |-> Empty]
      /\ pending_state = [n \in Nodes |-> None]
      /\ node_event_rx = [n \in Nodes |-> <<>>]
      /\ state_tx = InitialEvents(scenario)
      /\ senders = [o \in OutputIds |-> <<>>]
      /\ receiver = <<>>
      /\ semaphores = [n \in Nodes |-> <<>>]
      /\ sem = Empty
      /\ pc = [n \in Nodes |-> IF n \in Running(scenario) THEN "gate" ELSE "absent"]
      /\ idx = [n \in Nodes |-> 1]
      /\ run_node_context = [n \in Nodes |-> [audio_input_ids |-> <<>>, video_input_ids |-> <<>>,
                                               audio_outputs |-> {}, video_outputs |-> {}]]
      /\ upstream_semaphores = [n \in Nodes |-> <<>>]
      /\ downstream_semaphores = [n \in Nodes |-> <<>>]
      /\ audio_frames = [n \in Nodes |-> Empty]
      /\ video_frames = [n \in Nodes |-> Empty]
      /\ previous_black_frame = [n \in Nodes |-> NoBlack]
      /\ previous_silence_frame = [n \in Nodes |-> NoFrame]
      /\ submitted = [n \in Nodes |-> FALSE]
      /\ frame_context = [n \in Nodes |-> FALSE]
      /\ submit_calls = [n \in Nodes |-> 0]
      /\ last_submit = [n \in Nodes |-> None]
      /\ pushed = [n \in Nodes |-> {}]
      /\ sending = [n \in Nodes |-> NoSend]
      /\ pending_conn = NoConn
      /\ audio_connections = Empty
      /\ video_connections = Empty
      /\ requested = {}
      /\ make_connection_result = Empty
      /\ last_connect = NoConnect
      /\ started = [n \in Nodes |-> 0]
      /\ completed = [n \in Nodes |-> 0]
      /\ sent = [o \in OutputIds |-> <<>>]
      /\ yielded = <<>>
      /\ process_log = [n \in Nodes |-> <<>>]
      /\ signals = Empty
      /\ tick_sems = [n \in Nodes |-> {}]
      /\ tick_upstream = [n \in Nodes |-> {}]
      /\ black_created = [n \in Nodes |-> 0]
      /\ submit_errs = 0
      /\ video_buffers = <<>>
      /\ buffer_drop_event_rx = <<>>
      /\ video_buffer_refs = <<>>
      /\ last_image = NoImage
      /\ drained = {}

\* no audio frame is being converted
InitFor(S) ==
    /\ InitRest(S)
    /\ to_audio_f32 = None
    /\ from_audio_f32 = None
    /\ audio_samples = <<>>
    /\ audio_input = <<>>
    /\ loaded_audio = <<>>
    /\ audio_buffers = <<>>
    /\ consumed_buffer = <<>>
    /\ copied_frame = <<>>
    /\ io_pc = "idle"

Init ==
  LET Scenarios == {"chain", "fan", "av", "pair"}
  IN
          InitFor(Scenarios)

\* ------------------------------------------------- NodeContextImpl (plugin)
\* every id a node has declared so far: registered, or still in the queue
PendingIds(n) == {node_event_rx[n][j].id : j \in DOMAIN node_event_rx[n]}

DeclaredOutputs(n) == video_outputs[n] \cup audio_outputs[n] \cup (PendingIds(n) \cap OutputIds)


\* NodeContextImpl::add_audio_input / add_video_input: queue a NodeEvent
NodeContext_add_input(i) ==
  LET DeclaredInputs(n) == Range(video_input_ids[n]) \cup Range(audio_input_ids[n]) \cup (PendingIds(n) \cap InputIds)
  IN
      LET n == NodeOf(i) IN
      /\ i \in LatePorts(scenario)
      /\ i \notin DeclaredInputs(n)
      /\ node_event_rx' = [node_event_rx EXCEPT ![n] = Append(@,
              [type |-> IF KindOf(i) = "video" THEN "VideoInputAdded" ELSE "AudioInputAdded", id |-> i])]
      /\ UNCHANGED <<audio_input_ids, video_input_ids, audio_outputs, video_outputs,
                     connected_audio_pipes, connected_video_pipes, pending_state, state_tx>>
      /\ UNCHANGED <<chanVars, runVars, procVars, ctlVars, histVars>>
      /\ UNCHANGED <<poolVars, regVars>>

\* NodeContextImpl::add_audio_output / add_video_output: create the channel
\* and queue a NodeEvent carrying it
NodeContext_add_output(o) ==
    LET n == NodeOf(o) IN
    /\ o \in LatePorts(scenario)
    /\ o \notin DeclaredOutputs(n)
    /\ node_event_rx' = [node_event_rx EXCEPT ![n] = Append(@,
            [type |-> IF KindOf(o) = "video" THEN "VideoOutputAdded" ELSE "AudioOutputAdded", id |-> o])]
    /\ UNCHANGED <<audio_input_ids, video_input_ids, audio_outputs, video_outputs,
                   connected_audio_pipes, connected_video_pipes, pending_state, state_tx>>
    /\ UNCHANGED <<chanVars, runVars, procVars, ctlVars, histVars>>
    /\ UNCHANGED <<poolVars, regVars>>

\* ----------------------------------------------------------- NodeRunContext

\* NodeRunContext::add_audio_input .. add_video_output, applied to the queued
\* events q of node n: the NodeStateEvents sent to the registry, one each
\* (variant: the outputs are registered without an event)
state_tx_send_inputs_only(n, q) ==
    LET sel == SelectSeq(q, LAMBDA e : e.type \in {"AudioInputAdded", "VideoInputAdded"})
    IN  [j \in 1..Len(sel) |-> [type |-> sel[j].type, node |-> n, id |-> sel[j].id]]

state_tx_send(n, q) == [j \in 1..Len(q) |-> [type |-> q[j].type, node |-> n, id |-> q[j].id]]

\* handle_node_event applied to every queued event (the try_recv loops of
\* run_node): NodeRunContext::add_*_input / add_*_output register the id and
\* emit the matching NodeStateEvent
HandleNodeEvents(n) ==
  LET EventIds(q, type) ==
          LET sel == SelectSeq(q, LAMBDA e : e.type = type)
          IN  [j \in 1..Len(sel) |-> sel[j].id]
  IN
      LET q == node_event_rx[n] IN
      /\ audio_input_ids' = [audio_input_ids EXCEPT ![n] = @ \o EventIds(q, "AudioInputAdded")]
      /\ video_input_ids' = [video_input_ids EXCEPT ![n] = @ \o EventIds(q, "VideoInputAdded")]
      /\ audio_outputs' = [audio_outputs EXCEPT ![n] = @ \cup Range(EventIds(q, "AudioOutputAdded"))]
      /\ video_outputs' = [video_outputs EXCEPT ![n] = @ \cup Range(EventIds(q, "VideoOutputAdded"))]
      /\ state_tx' = state_tx \o state_tx_send(n, q)
      /\ node_event_rx' = [node_event_rx EXCEPT ![n] = <<>>]

\* ------------------------------------------------------------ Channel, pipes
\* the std Mutex of a channel is held for the whole of Channel::send
ChannelLocked(o) == \E n \in Nodes : sending[n].out = o


\* tokio mpsc Sender::blocking_send on an open receiver with room
\* (variant: the delivery is lost)
blocking_send_lossy(p, delivery) == receiver

blocking_send(p, delivery) == [receiver EXCEPT ![p].queue = Append(@, delivery)]

\* Channel::no_receivers
no_receivers(o) == senders[o] = <<>>

\* --------------------------------------------------- PhaneronState (control)
\* the nodes map of the registry has an entry for the node of a port
NodeExists(port) == pc[NodeOf(port)] # "absent"

\* make_video_connection / make_audio_connection, first half:
\* nodes.get(from_node_id).unwrap(), then
\* from_node.context.get_*_pipe(from_output) = outputs.get(id).unwrap() and
\* Channel::subscribe. A failed unwrap panics: the call ends there.
get_pipe(r) ==
    LET o == r.from
        i == r.to
    IN
    /\ r \in Requests(scenario)
    /\ r.k \notin requested
    /\ requested' = requested \cup {r.k}
    /\ pending_conn = NoConn
    /\ IF NodeExists(o) /\ o \in video_outputs[NodeOf(o)] \cup audio_outputs[NodeOf(o)]
       THEN /\ ~ChannelLocked(o)
            /\ receiver' = Append(receiver, [id |-> o, queue |-> <<>>, open |-> TRUE, since |-> Len(sent[o])])
            /\ senders' = [senders EXCEPT ![o] = Append(@, Len(receiver) + 1)]
            /\ yielded' = Append(yielded, <<>>)
            /\ pending_conn' = [pipe |-> Len(receiver) + 1, to |-> i, k |-> r.k]
            /\ UNCHANGED make_connection_result
       ELSE /\ make_connection_result' = Put(make_connection_result, r.k, "panic")
            /\ UNCHANGED <<receiver, senders, yielded, pending_conn>>
    /\ UNCHANGED <<semaphores, sem, scenario, audio_connections, video_connections, last_connect>>
    /\ UNCHANGED <<started, completed, sent, process_log, signals, tick_sems, black_created, submit_errs, tick_upstream>>
    /\ UNCHANGED <<ctxVars, runVars, procVars>>
    /\ UNCHANGED <<poolVars, regVars>>

\* the scheduler of n holds the connected_*_pipes lock of a kind while it
\* awaits next_frame on an input of that kind
\* (variant: the audio gather loop is skipped)
GatherList_video_only(n) == run_node_context[n].video_input_ids

GatherList(n) == run_node_context[n].audio_input_ids \o run_node_context[n].video_input_ids


ConnectedPipes(n, kind) == IF kind = "video" THEN connected_video_pipes[n] ELSE connected_audio_pipes[n]

InputIdsOf(n, kind) == IF kind = "video" THEN video_input_ids[n] ELSE audio_input_ids[n]

\* (variant: the check for an existing connection is left out)
connect_result_overwrite(i) ==
    LET n == NodeOf(i) IN
    IF i \notin Range(InputIdsOf(n, KindOf(i))) THEN "InputDoesNotExist"
    ELSE "Ok"

\* NodeRunContext::connect_video_pipe / connect_audio_pipe: the result
connect_result(i) ==
    LET n == NodeOf(i) IN
    IF i \notin Range(InputIdsOf(n, KindOf(i))) THEN "InputDoesNotExist"
    ELSE IF i \in DOMAIN ConnectedPipes(n, KindOf(i)) THEN "InputAlreadyConnectedTo"
    ELSE "Ok"

\* make_video_connection / make_audio_connection, second half:
\* nodes.get(to_node_id).unwrap(), then
\* to_node.context.connect_*_pipe(to_input, pipe).await.unwrap(), then
\* *_pipe_connected and Ok(()). On Err the pipe, moved into connect_*_pipe,
\* is dropped and the unwrap panics; a missing to-node panics before the
\* call, and the unwinding drops the pipe.
connect_pipe ==
  LET PipesLocked(n, kind) == pc[n] = "recv" /\ KindOf(GatherList(n)[idx[n]]) = kind
  IN
    LET DropPipe(p) ==
          \* dropping a pipe closes its mpsc receiver: the queued deliveries are
          \* dropped and with them their ChannelSemaphore (the oneshot sender)
          LET DroppedSems(p_) == {receiver[p_].queue[j].semaphore : j \in DOMAIN receiver[p_].queue}
          IN
              /\ receiver' = [receiver EXCEPT ![p] = [@ EXCEPT !.queue = <<>>, !.open = FALSE]]
              /\ sem' = [s \in DOMAIN sem |-> IF s \in DroppedSems(p) THEN ChannelSemaphore_drop ELSE sem[s]]
    IN
        /\ pending_conn # NoConn
        /\ LET i == pending_conn.to
               p == pending_conn.pipe
               n == NodeOf(i)
               k == KindOf(i)
               r == IF NodeExists(i) THEN connect_result(i) ELSE "NodeMissing"
           IN
           /\ r \in {"Ok", "InputAlreadyConnectedTo"} => ~PipesLocked(n, k)
           /\ IF r = "Ok"
              THEN /\ IF k = "video"
                      THEN /\ connected_video_pipes' = [connected_video_pipes EXCEPT ![n] =
                                    Put(@, i, [id |-> receiver[p].id, pipe |-> p])]
                           /\ video_connections' = Put(video_connections, i, receiver[p].id)
                           /\ UNCHANGED <<connected_audio_pipes, audio_connections>>
                      ELSE /\ connected_audio_pipes' = [connected_audio_pipes EXCEPT ![n] =
                                    Put(@, i, [id |-> receiver[p].id, pipe |-> p])]
                           /\ audio_connections' = Put(audio_connections, i, receiver[p].id)
                           /\ UNCHANGED <<connected_video_pipes, video_connections>>
                   /\ UNCHANGED <<receiver, sem>>
              ELSE /\ DropPipe(p)
                   /\ UNCHANGED <<connected_video_pipes, connected_audio_pipes,
                                  video_connections, audio_connections>>
           /\ make_connection_result' = Put(make_connection_result, pending_conn.k,
                                            IF r = "Ok" THEN "Ok" ELSE "panic")
           /\ last_connect' = IF NodeExists(i)
                              THEN [to |-> i, pipe |-> p, result |-> r,
                                    declared |-> i \in Range(InputIdsOf(n, k)),
                                    before |-> ConnectedPipes(n, k)]
                              ELSE last_connect
        /\ pending_conn' = NoConn
        /\ UNCHANGED <<audio_input_ids, video_input_ids, audio_outputs, video_outputs,
                       pending_state, node_event_rx, state_tx>>
        /\ UNCHANGED <<senders, semaphores, scenario, requested>>
        /\ UNCHANGED <<runVars, procVars, histVars>>
        /\ UNCHANGED <<poolVars, regVars>>

\* ------------------------------------------------------------------ run_node
\* NodeRunContext::get_run_process_frame_context: the lists are cloned, the
\* connected pipe maps are shared
Snapshot(n) == [audio_input_ids |-> audio_input_ids[n], video_input_ids |-> video_input_ids[n],
                audio_outputs |-> audio_outputs[n], video_outputs |-> video_outputs[n]]

\* the four "can't make progress" tests at the head of the loop
\* (variant: without the two input tests)
GateFails_outputs_only(n) ==
    LET ctx == Snapshot(n) IN
    \/ \E o \in ctx.video_outputs : no_receivers(o)
    \/ \E o \in ctx.audio_outputs : no_receivers(o)

GateFails(n) ==
    LET ctx == Snapshot(n) IN
    \/ /\ Len(ctx.video_input_ids) # 0
       /\ Cardinality(DOMAIN connected_video_pipes[n]) # Len(ctx.video_input_ids)
    \/ /\ Len(ctx.audio_input_ids) # 0
       /\ Cardinality(DOMAIN connected_audio_pipes[n]) # Len(ctx.audio_input_ids)
    \/ \E o \in ctx.video_outputs : no_receivers(o)
    \/ \E o \in ctx.audio_outputs : no_receivers(o)

\* a gate test fails: drain the NodeEvent queue and continue
GateFail(n) ==
    /\ pc[n] = "gate"
    /\ GateFails(n)
    /\ HandleNodeEvents(n)
    /\ UNCHANGED <<connected_audio_pipes, connected_video_pipes, pending_state>>
    /\ UNCHANGED <<chanVars, runVars, procVars, ctlVars, histVars>>
    /\ UNCHANGED <<poolVars, regVars>>

\* Option::take on the pending state cell, under its lock: what it leaves
\* (variant: the cell is read and left as it is)
take_peek(n) == pending_state[n]

take(n) == None

\* all gate tests pass: take the pending state and apply it (apply_node_state:
\* node.apply_state answers true or false; true emits StateChanged), then
\* start gathering with empty frame maps
GatePass(n) ==
  \* the iterations of run_node that are followed for each node: one more
  \* where the cached black frame is looked at (a frame grows, shrinks, grows)
  LET Ticks(sc) == IF sc = "black" THEN MaxTicks + 1 ELSE MaxTicks
  IN
      /\ pc[n] = "gate"
      /\ ~GateFails(n)
      /\ started[n] < Ticks(scenario)
      /\ run_node_context' = [run_node_context EXCEPT ![n] = Snapshot(n)]
      /\ pending_state' = [pending_state EXCEPT ![n] = take(n)]
      /\ apply_state_calls' = IF pending_state[n] = None THEN apply_state_calls
                              ELSE [apply_state_calls EXCEPT ![n] = Append(@, pending_state[n])]
      /\ \E applied \in BOOLEAN :
           /\ pending_state[n] = None => applied = FALSE
           /\ state_tx' = IF applied
                          THEN Append(state_tx, [type |-> "StateChanged", node |-> n, id |-> pending_state[n]])
                          ELSE state_tx
      /\ audio_frames' = [audio_frames EXCEPT ![n] = Empty]
      /\ video_frames' = [video_frames EXCEPT ![n] = Empty]
      /\ upstream_semaphores' = [upstream_semaphores EXCEPT ![n] = <<>>]
      /\ idx' = [idx EXCEPT ![n] = 1]
      /\ pc' = [pc EXCEPT ![n] = "gather"]
      /\ UNCHANGED <<audio_input_ids, video_input_ids, audio_outputs, video_outputs,
                     connected_audio_pipes, connected_video_pipes, node_event_rx>>
      /\ tick_upstream' = [tick_upstream EXCEPT ![n] = {}]
      /\ UNCHANGED <<downstream_semaphores, previous_black_frame, previous_silence_frame>>
      /\ UNCHANGED <<started, completed, sent, yielded, process_log, signals, tick_sems,
                     black_created, submit_errs>>
      /\ UNCHANGED <<chanVars, procVars, ctlVars>>
      /\ UNCHANGED <<poolVars, registryVars, panicked, ioVars, tasks>>

\* the next input of the gather loops: lock the connected pipe map and look
\* the input up; Some(pipe) -> await next_frame holding the lock,
\* None -> the input will get black / silence
GatherLock(n) ==
    /\ pc[n] = "gather"
    /\ idx[n] <= Len(GatherList(n))
    /\ LET i == GatherList(n)[idx[n]] IN
       IF i \in DOMAIN ConnectedPipes(n, KindOf(i))
       THEN pc' = [pc EXCEPT ![n] = "recv"] /\ UNCHANGED idx
       ELSE idx' = [idx EXCEPT ![n] = @ + 1] /\ UNCHANGED pc
    /\ UNCHANGED <<run_node_context, upstream_semaphores, downstream_semaphores,
                   audio_frames, video_frames, previous_black_frame, previous_silence_frame>>
    /\ UNCHANGED <<ctxVars, chanVars, procVars, ctlVars, histVars>>
    /\ UNCHANGED <<poolVars, regVars>>

\* VideoPipe::next_frame / AudioPipe::next_frame returns Some((frame, semaphore))
GatherRecv(n) ==
    /\ pc[n] = "recv"
    /\ LET i == GatherList(n)[idx[n]]
           conn == ConnectedPipes(n, KindOf(i))[i]
           p == conn.pipe
       IN
       /\ receiver[p].queue # <<>>
       /\ LET d == Head(receiver[p].queue) IN
          /\ receiver' = [receiver EXCEPT ![p].queue = Tail(@)]
          /\ upstream_semaphores' = [upstream_semaphores EXCEPT ![n] = Append(@, d.semaphore)]
          /\ IF KindOf(i) = "video"
             THEN /\ video_frames' = [video_frames EXCEPT ![n] = Put(@, i, [id |-> conn.id, frame |-> d.frame])]
                  /\ UNCHANGED audio_frames
             ELSE /\ audio_frames' = [audio_frames EXCEPT ![n] = Put(@, i, [id |-> conn.id, frame |-> d.frame])]
                  /\ UNCHANGED video_frames
          /\ yielded' = [yielded EXCEPT ![p] = Append(@, [frame |-> d.frame, tick |-> started[n] + 1])]
          /\ tick_upstream' = [tick_upstream EXCEPT ![n] = @ \cup {d.semaphore}]
    /\ idx' = [idx EXCEPT ![n] = @ + 1]
    /\ pc' = [pc EXCEPT ![n] = "gather"]
    /\ UNCHANGED <<run_node_context, downstream_semaphores, previous_black_frame, previous_silence_frame>>
    /\ UNCHANGED <<senders, semaphores, sem>>
    /\ UNCHANGED <<started, completed, sent, process_log, signals, tick_sems, black_created, submit_errs>>
    /\ UNCHANGED <<ctxVars, procVars, ctlVars>>
    /\ UNCHANGED <<poolVars, regVars>>

\* max_width / max_height over the video frames received this iteration
MaxOver(S, floor) ==
  LET Max(a, b) == IF a > b THEN a ELSE b
  IN
                       IF S = {} THEN floor ELSE Max(floor, CHOOSE m \in S : \A x \in S : x <= m)

\* (variant: the width stays at its initial value)
max_width_initial(n) == 256

max_width(n) == MaxOver({video_frames[n][i].frame.width : i \in DOMAIN video_frames[n]}, 256)

max_height(n) == MaxOver({video_frames[n][i].frame.height : i \in DOMAIN video_frames[n]}, 1)

\* the black frame of this iteration: the cached one unless the maxima exceed
\* the cached dimensions
NeedNewBlack(n) ==
    \/ previous_black_frame[n] = NoBlack
    \/ max_width(n) > previous_black_frame[n].width
    \/ max_height(n) > previous_black_frame[n].height


\* the frame maps handed to process_frame: received frames, plus black /
\* silence for every input of inputs_requiring_black_frames / _silence
\* (variant: every input gets the default)
WithDefaults_always(frames, ids, default) == [i \in DOMAIN frames \cup Range(ids) |-> default]

WithDefaults(frames, ids, default) ==
    [i \in DOMAIN frames \cup Range(ids) |-> IF i \in DOMAIN frames THEN frames[i] ELSE default]

\* inputs gathered: build black / silence, spawn node.process_frame with a
\* fresh ProcessFrameContextImpl
ProcessStart(n) ==
  LET black_frame(n__) ==
        \* compute.rs create_black_frame(width, height); n__ numbers the frames created
        LET BlackFrame(n_, w, h) == [id |-> "black", n |-> n_, width |-> w, height |-> h, tick |-> 0]
        IN
            IF NeedNewBlack(n__)
            THEN BlackFrame(black_created[n__] + 1, max_width(n__), max_height(n__))
            ELSE previous_black_frame[n__].frame
  IN
    \* run_node: AudioFrame "silence", vec![vec![0f32; 48000 / 25]]
    LET SilenceFrame == [id |-> "silence", n |-> 0, width |-> 1, height |-> 1920, tick |-> 0]
    IN
        /\ pc[n] = "gather"
        /\ idx[n] > Len(GatherList(n))
        /\ LET black == [id |-> "black", frame |-> black_frame(n)]
               silence == [id |-> "silence", frame |-> SilenceFrame]
               vf == WithDefaults(video_frames[n], run_node_context[n].video_input_ids, black)
               af == WithDefaults(audio_frames[n], run_node_context[n].audio_input_ids, silence)
           IN
           /\ video_frames' = [video_frames EXCEPT ![n] = vf]
           /\ audio_frames' = [audio_frames EXCEPT ![n] = af]
           /\ previous_black_frame' = [previous_black_frame EXCEPT ![n] =
                 [width |-> max_width(n), height |-> max_height(n), frame |-> black.frame]]
           /\ previous_silence_frame' = [previous_silence_frame EXCEPT ![n] = SilenceFrame]
           /\ black_created' = [black_created EXCEPT ![n] = IF NeedNewBlack(n) THEN @ + 1 ELSE @]
           /\ process_log' = [process_log EXCEPT ![n] = Append(@,
                 [video_frames |-> vf, audio_frames |-> af, black |-> black, silence |-> silence])]
        /\ submitted' = [submitted EXCEPT ![n] = FALSE]
        /\ UNCHANGED frame_context
        /\ submit_calls' = [submit_calls EXCEPT ![n] = 0]
        /\ last_submit' = [last_submit EXCEPT ![n] = None]
        /\ pushed' = [pushed EXCEPT ![n] = {}]
        /\ started' = [started EXCEPT ![n] = @ + 1]
        /\ tick_sems' = [tick_sems EXCEPT ![n] = {}]
        /\ pc' = [pc EXCEPT ![n] = "process"]
        /\ UNCHANGED <<idx, run_node_context, upstream_semaphores, downstream_semaphores, sending>>
        /\ UNCHANGED <<completed, sent, yielded, signals, submit_errs, tick_upstream>>
        /\ UNCHANGED <<ctxVars, chanVars, ctlVars>>
        /\ UNCHANGED <<poolVars, regVars>>

\* ------------------------------------------ the node inside process_frame
\* ProcessFrameContextImpl::submit
\* (variant: the submitted flag is not consulted)
submit_result_unchecked(n) == "Ok"

submit_result(n) == IF submitted[n] THEN "Err" ELSE "Ok"

NodeSubmit(n) ==
  \* what the plugin code of the nodes does with its contexts: whether it calls
  \* submit() again on a ProcessFrameContext, and whether it keeps the
  \* FrameContext (an owned value, types.rs FrameContext) when process_frame
  \* returns instead of dropping it
  LET SubmitsAgain(sc) == sc = "pair"
  IN
      /\ pc[n] = "process"
      /\ sending[n] = NoSend
      /\ submitted[n] => (SubmitsAgain(scenario) /\ submit_errs < MaxSubmitErrs)
      /\ submit_errs' = IF submitted[n] THEN submit_errs + 1 ELSE submit_errs
      /\ submit_calls' = [submit_calls EXCEPT ![n] = @ + 1]
      /\ last_submit' = [last_submit EXCEPT ![n] = submit_result(n)]
      /\ submitted' = [submitted EXCEPT ![n] = TRUE]
      /\ frame_context' = [frame_context EXCEPT ![n] = @ \/ submit_result(n) = "Ok"]
      /\ UNCHANGED <<pushed, sending>>
      /\ UNCHANGED <<started, completed, sent, yielded, process_log, signals, tick_sems, tick_upstream,
                     black_created>>
      /\ UNCHANGED <<ctxVars, chanVars, runVars, ctlVars>>
      /\ UNCHANGED <<poolVars, regVars>>

\* VideoOutput::push_frame / AudioOutput::push_frame(&FrameContext, frame):
\* the call needs a FrameContext, which only submit() hands out: an owned
\* value (types.rs FrameContext) that the node can keep after the
\* invocation that made it, and that push_frame does not look at; it enters
\* Channel::send, which takes the channel's lock; with no subscriber the
\* loop of send is empty and the call returns
NodePush(n, o) ==
  \* VideoFrame / AudioFrame produced on an output; n is its production number,
  \* tick the process_frame invocation of the producer that pushed it
  LET Frame(out, n__, size, tick) == [id |-> out, n |-> n__, width |-> size[1], height |-> size[2], tick |-> tick]
  IN
    \* the size of the n-th frame a node produces on an output: the producer's
    \* frames grow and shrink, the mixer's are small
    LET FrameSize(o_, n_) ==
            CASE KindOf(o_) = "audio" -> <<1, 1920>>
              [] o_ = "pv" /\ n_ % 2 = 1 -> <<512, 2>>
              [] OTHER -> <<256, 1>>
    IN
        /\ pc[n] = "process"
        /\ sending[n] = NoSend
        /\ frame_context[n]
        /\ o \in DeclaredOutputs(n)
        /\ o \notin pushed[n]
        /\ LET frame == Frame(o, Len(sent[o]) + 1, FrameSize(o, Len(sent[o]) + 1), started[n]) IN
           IF senders[o] = <<>>
           THEN sent' = [sent EXCEPT ![o] = Append(@, frame)] /\ UNCHANGED sending
           ELSE sending' = [sending EXCEPT ![n] = [out |-> o, frame |-> frame, i |-> 1]] /\ UNCHANGED sent
        /\ pushed' = [pushed EXCEPT ![n] = @ \cup {o}]
        /\ UNCHANGED <<submitted, frame_context, submit_calls, last_submit>>
        /\ UNCHANGED <<started, completed, yielded, process_log, signals, tick_sems, black_created, submit_errs, tick_upstream>>
        /\ UNCHANGED <<ctxVars, chanVars, runVars, ctlVars>>
        /\ UNCHANGED <<poolVars, regVars>>

\* one turn of the loop of Channel::send: get_semaphore registers the
\* oneshot receiver with the provider, blocking_send waits for room in the
\* subscriber's queue of depth 1 and fails at once when the receiver is gone
\* (the delivery, and its semaphore, is then dropped); after the last
\* subscriber send returns
SendStep(n) ==
    /\ sending[n] # NoSend
    /\ LET o == sending[n].out
           p == senders[o][sending[n].i]
           s == Semaphore(p, sending[n].frame.n)
       IN
       /\ receiver[p].open => Len(receiver[p].queue) < 1
       /\ semaphores' = [semaphores EXCEPT ![n] = Append(@, s)]
       /\ tick_sems' = [tick_sems EXCEPT ![n] = @ \cup {s}]
       /\ signals' = Put(signals, s, 0)
       /\ IF receiver[p].open
          THEN /\ receiver' = blocking_send(p, [frame |-> sending[n].frame, semaphore |-> s])
               /\ sem' = Put(sem, s, "pending")
          ELSE /\ sem' = Put(sem, s, ChannelSemaphore_drop)
               /\ UNCHANGED receiver
       /\ IF sending[n].i < Len(senders[o])
          THEN sending' = [sending EXCEPT ![n].i = @ + 1] /\ UNCHANGED sent
          ELSE sending' = [sending EXCEPT ![n] = NoSend] /\ sent' = [sent EXCEPT ![o] = Append(@, sending[n].frame)]
    /\ UNCHANGED <<submitted, frame_context, submit_calls, last_submit, pushed, senders>>
    /\ UNCHANGED <<started, completed, yielded, process_log, black_created, submit_errs, tick_upstream>>
    /\ UNCHANGED <<ctxVars, runVars, ctlVars>>
    /\ UNCHANGED <<poolVars, regVars>>

\* process_frame returns, which drops the ProcessFrameContextImpl it was
\* given and, unless the node keeps it, the FrameContext; the scheduler
\* drains the semaphore provider
ProcessReturn(n) ==
  LET KeepsFrameContext(sc) == sc = "pair"
  IN
      /\ pc[n] = "process"
      /\ sending[n] = NoSend
      /\ submitted' = [submitted EXCEPT ![n] = FALSE]
      /\ frame_context' = [frame_context EXCEPT ![n] = @ /\ KeepsFrameContext(scenario)]
      /\ submit_calls' = [submit_calls EXCEPT ![n] = 0]
      /\ last_submit' = [last_submit EXCEPT ![n] = None]
      /\ pushed' = [pushed EXCEPT ![n] = {}]
      /\ downstream_semaphores' = [downstream_semaphores EXCEPT ![n] = semaphores[n]]
      /\ semaphores' = [semaphores EXCEPT ![n] = <<>>]
      /\ pc' = [pc EXCEPT ![n] = "barrier"]
      /\ UNCHANGED <<idx, run_node_context, upstream_semaphores, audio_frames, video_frames,
                     previous_black_frame, previous_silence_frame>>
      /\ UNCHANGED <<senders, receiver, sem, sending>>
      /\ UNCHANGED <<ctxVars, ctlVars, histVars>>
      /\ UNCHANGED <<poolVars, regVars>>

\* "for semaphore in downstream_semaphores { semaphore.await.ok(); }": a
\* oneshot receiver resolves when its sender has signalled or was dropped
\* (variant: the await does not wait)
Resolved_nowait(s) == TRUE

Resolved(s) == sem[s] # "pending"

BarrierAwait(n) ==
    /\ pc[n] = "barrier"
    /\ downstream_semaphores[n] # <<>>
    /\ Resolved(Head(downstream_semaphores[n]))
    /\ downstream_semaphores' = [downstream_semaphores EXCEPT ![n] = Tail(@)]
    /\ UNCHANGED <<pc, idx, run_node_context, upstream_semaphores, audio_frames, video_frames,
                   previous_black_frame, previous_silence_frame>>
    /\ UNCHANGED <<ctxVars, chanVars, procVars, ctlVars, histVars>>
    /\ UNCHANGED <<poolVars, regVars>>

\* the barrier is through: signal every upstream semaphore, drain the
\* NodeEvent queue, loop
AckUpstream(n) ==
    /\ pc[n] = "barrier"
    /\ downstream_semaphores[n] = <<>>
    /\ sem' = [s \in DOMAIN sem |-> IF s \in Range(upstream_semaphores[n]) THEN "signalled" ELSE sem[s]]
    /\ signals' = [s \in DOMAIN signals |-> IF s \in Range(upstream_semaphores[n]) THEN signals[s] + 1 ELSE signals[s]]
    /\ upstream_semaphores' = [upstream_semaphores EXCEPT ![n] = <<>>]
    /\ completed' = [completed EXCEPT ![n] = @ + 1]
    /\ HandleNodeEvents(n)
    /\ pc' = [pc EXCEPT ![n] = "gate"]
    /\ UNCHANGED <<connected_audio_pipes, connected_video_pipes, pending_state>>
    /\ UNCHANGED <<idx, run_node_context, downstream_semaphores, audio_frames, video_frames,
                   previous_black_frame, previous_silence_frame>>
    /\ UNCHANGED <<senders, receiver, semaphores>>
    /\ UNCHANGED <<started, sent, yielded, process_log, tick_sems, black_created, submit_errs, tick_upstream>>
    /\ UNCHANGED <<procVars, ctlVars>>
    /\ UNCHANGED <<poolVars, regVars>>

\* ------------------------------------------------------------ specification
Next ==
    \/ \E i \in InputIds : NodeContext_add_input(i)
    \/ \E o \in OutputIds : NodeContext_add_output(o)
    \/ \E r \in Requests(scenario) : get_pipe(r)
    \/ connect_pipe
    \/ \E n \in Nodes : GateFail(n)
    \/ \E n \in Nodes : GatePass(n)
    \/ \E n \in Nodes : GatherLock(n)
    \/ \E n \in Nodes : GatherRecv(n)
    \/ \E n \in Nodes : ProcessStart(n)
    \/ \E n \in Nodes : NodeSubmit(n)
    \/ \E n \in Nodes, o \in OutputIds : NodePush(n, o)
    \/ \E n \in Nodes : SendStep(n)
    \/ \E n \in Nodes : ProcessReturn(n)
    \/ \E n \in Nodes : BarrierAwait(n)
    \/ \E n \in Nodes : AckUpstream(n)

Spec == Init /\ [][Next]_vars

\* ------------------------------------------------------------- image pool
\* the sizes images are asked for
ImageSizes == {<<256, 1>>, <<512, 2>>}

\* the slots create_image may reuse: available, of the width and height asked
Fits(w, h) ==
    {k \in DOMAIN video_buffers :
        video_buffers[k].available /\ video_buffers[k].width = w /\ video_buffers[k].height = h}

\* buffers.iter().position(..): the first slot that fits
\* (variant: the last slot that fits)
position_last(w, h) == CHOOSE k \in Fits(w, h) : \A j \in Fits(w, h) : j <= k

position(w, h) == CHOOSE k \in Fits(w, h) : \A j \in Fits(w, h) : k <= j


\* PhaneronComputeContext::create_image(width, height), and VideoFrame::new
\* around the VideoBufferRef it returns: Some(index) marks the slot not
\* available; None pushes VideoBuffer::new(..) and returns its index
create_image(w, h) ==
  \* VideoBuffer::new
  LET VideoBuffer_new(w_, h_) == [available |-> TRUE, width |-> w_, height |-> h_]
  IN
      /\ Len(video_buffer_refs) < MaxImages
      /\ LET index == IF Fits(w, h) # {} THEN position(w, h) ELSE Len(video_buffers) + 1 IN
         /\ video_buffers' = IF Fits(w, h) # {}
                             THEN [video_buffers EXCEPT ![index].available = FALSE]
                             ELSE Append(video_buffers, VideoBuffer_new(w, h))
         /\ video_buffer_refs' = Append(video_buffer_refs, [video_buffer_index |-> index, holders |-> 1])
         /\ last_image' = [index |-> index, width |-> w, height |-> h,
                           len |-> Len(video_buffers), fits |-> Fits(w, h)]
      /\ UNCHANGED <<buffer_drop_event_rx, drained>>
      /\ UNCHANGED <<nodeVars, regVars>>

\* VideoFrame::clone: one more holder of the Arc<VideoBufferRef>
VideoFrame_clone(r) ==
    /\ r \in DOMAIN video_buffer_refs
    /\ video_buffer_refs[r].holders >= 1
    /\ video_buffer_refs[r].holders < MaxHolders
    /\ video_buffer_refs' = [video_buffer_refs EXCEPT ![r].holders = @ + 1]
    /\ UNCHANGED <<video_buffers, buffer_drop_event_rx, last_image, drained>>
    /\ UNCHANGED <<nodeVars, regVars>>

\* a VideoFrame is dropped; with the last holder the VideoBufferRef goes and
\* Drop for VideoBufferRef sends its index to the release task
VideoFrame_drop(r) ==
    /\ r \in DOMAIN video_buffer_refs
    /\ video_buffer_refs[r].holders >= 1
    /\ video_buffer_refs' = [video_buffer_refs EXCEPT ![r].holders = @ - 1]
    /\ buffer_drop_event_rx' = IF video_buffer_refs[r].holders = 1
                               THEN Append(buffer_drop_event_rx, video_buffer_refs[r].video_buffer_index)
                               ELSE buffer_drop_event_rx
    /\ UNCHANGED <<video_buffers, last_image, drained>>
    /\ UNCHANGED <<nodeVars, regVars>>

\* the task spawned by create_compute_context: one index received
ReleaseTask ==
    /\ buffer_drop_event_rx # <<>>
    /\ video_buffers' = [video_buffers EXCEPT ![Head(buffer_drop_event_rx)].available = TRUE]
    /\ buffer_drop_event_rx' = Tail(buffer_drop_event_rx)
    /\ drained' = drained \cup {Head(buffer_drop_event_rx)}
    /\ UNCHANGED <<video_buffer_refs, last_image>>
    /\ UNCHANGED <<nodeVars, regVars>>

PoolInit == Init /\ scenario = "pair"

PoolNext ==
    \/ \E size \in ImageSizes : create_image(size[1], size[2])
    \/ \E r \in 1..MaxImages : VideoFrame_clone(r)
    \/ \E r \in 1..MaxImages : VideoFrame_drop(r)
    \/ ReleaseTask

PoolSpec == PoolInit /\ [][PoolNext]_vars

\* ---------------------------------------------------------------- registry
\* the state strings the control plane sends
States == {"s1", "s2", "s3", "s4"}

\* the k-th set_node_state call sends a string of its own
StateOfCall(k) ==
    CASE k = 1 -> "s1"
      [] k = 2 -> "s2"
      [] k = 3 -> "s3"
      [] OTHER -> "s4"


\* the add_node calls the control plane issues: (graph id, node id)
AddNodeCalls == {<<"G1", "P">>, <<"G1", "C">>, <<"G1", "M">>, <<"G2", "C">>}


\* state_event_tx.send(()): a full channel overwrites its oldest message and
\* the receiver will find it has lagged
state_event_tx_send ==
  \* capacity of the broadcast channel state_event_tx
  LET StateEventCapacity == 10
  IN
      IF state_event_rx < StateEventCapacity
      THEN /\ state_event_rx' = state_event_rx + 1
           /\ UNCHANGED state_event_lagged
      ELSE /\ state_event_lagged' = TRUE
           /\ UNCHANGED state_event_rx

\* the inputs and outputs a node of a type declares in initialize
DeclaredInInitialize(node_type) == IF node_type = "generator" THEN {"pv"} ELSE {}

\* add_node, "Block and handle initial events": the try_recv loop hands every
\* NodeEvent that initialize queued to handle_node_event before run_node is
\* spawned
\* (variant: run_node is spawned with the events still in the queue)
initial_events_handled_none(ports) == {}

initial_events_handled(ports) == ports

\* PhaneronState::add_node. The graph lock is held for the whole call.
\* Missing graph: Err(GraphDoesNotExist). create_node_handle unwraps the
\* lookup of the node type: a type no plugin provides panics. Otherwise:
\* initialize, apply_node_state with the initial state (StateChanged if the
\* node accepts it), insert into nodes, handle the NodeEvents of initialize,
\* push to the graph's node list, spawn run_node, send a state event.
add_node(g, n) ==
  \* what Node::apply_state of a node of a type answers to the initial state
  \* add_node passes on
  LET AcceptsInitialState(node_type) == node_type = "idle"
  IN
        LET node_type == NodeType(n)
            applied == AcceptsInitialState(node_type)
            ports == DeclaredInInitialize(node_type)
            handled == initial_events_handled(ports)
            changed == IF applied THEN <<[type |-> "StateChanged", node |-> n, id |-> "s0"]>> ELSE <<>>
            added == [j \in 1..Cardinality(handled) |->
                        [type |-> "VideoOutputAdded", node |-> n, id |-> SeqOfSet(handled)[j]]]
            queued == [j \in 1..Cardinality(ports \ handled) |->
                        [type |-> "VideoOutputAdded", id |-> SeqOfSet(ports \ handled)[j]]]
        IN
        /\ <<g, n>> \in AddNodeCalls
        /\ n \notin DOMAIN nodes
        /\ UNCHANGED <<panicked, ioVars, tasks>>
        /\ IF g \notin DOMAIN graphs
           THEN /\ last_add_node' = [graph |-> g, node |-> n, result |-> "GraphDoesNotExist"]
                /\ UNCHANGED <<graphs, nodes, state_event_rx, state_event_lagged, pc, video_outputs, state_tx,
                               apply_state_calls, node_event_rx>>
           ELSE IF node_type \notin nodes_provided_by_plugins
           THEN /\ last_add_node' = [graph |-> g, node |-> n, result |-> "panic"]
                /\ UNCHANGED <<graphs, nodes, state_event_rx, state_event_lagged, pc, video_outputs, state_tx,
                               apply_state_calls, node_event_rx>>
           ELSE /\ last_add_node' = [graph |-> g, node |-> n, result |-> "Ok"]
                /\ state_tx' = state_tx \o changed \o added
                /\ apply_state_calls' = [apply_state_calls EXCEPT ![n] = Append(@, "s0")]
                /\ nodes' = Put(nodes, n, node_type)
                /\ video_outputs' = [video_outputs EXCEPT ![n] = @ \cup handled]
                /\ node_event_rx' = [node_event_rx EXCEPT ![n] = queued]
                /\ graphs' = [graphs EXCEPT ![g] = Append(@, n)]
                /\ pc' = [pc EXCEPT ![n] = "gate"]
                /\ state_event_tx_send
        /\ UNCHANGED <<node_states, node_event_handled, state_representation, subscribers_to_state,
                       state_rx, observed, set_node_state_calls>>
        /\ UNCHANGED <<audio_input_ids, video_input_ids, audio_outputs, connected_audio_pipes,
                       connected_video_pipes, pending_state>>
        /\ UNCHANGED <<idx, run_node_context, upstream_semaphores, downstream_semaphores,
                       audio_frames, video_frames, previous_black_frame, previous_silence_frame>>
        /\ UNCHANGED <<chanVars, procVars, ctlVars, histVars, poolVars>>

\* PhaneronState::set_node_state: nodes.get(node_id).unwrap() (an unknown
\* node id panics and changes nothing), then NodeRunContext::set_state
\* overwrites the pending state cell
set_node_state(n, s) ==
  \* how many set_node_state calls the control plane makes
  LET SetStateCalls(sc) == IF sc = "state" THEN MaxSetState + 1 ELSE MaxSetState
  IN
      /\ n \in DOMAIN nodes
      /\ set_node_state_calls < SetStateCalls(scenario)
      /\ s = StateOfCall(set_node_state_calls + 1)
      /\ set_node_state_calls' = set_node_state_calls + 1
      /\ pending_state' = [pending_state EXCEPT ![n] = s]
      /\ UNCHANGED <<audio_input_ids, video_input_ids, audio_outputs, video_outputs,
                     connected_audio_pipes, connected_video_pipes, node_event_rx, state_tx>>
      /\ UNCHANGED <<graphs, nodes, node_states, node_event_handled, state_event_rx, state_event_lagged,
                     state_representation, subscribers_to_state, state_rx, observed, last_add_node>>
      /\ UNCHANGED <<chanVars, runVars, procVars, ctlVars, histVars, poolVars>>
      /\ UNCHANGED <<apply_state_calls, panicked, ioVars, tasks>>

\* node_state_changed: node_states.insert(node_id, new_state)
\* (variant: the state a node already has is kept)
node_state_changed_once(node_id, new_state) ==
    IF node_id \in DOMAIN node_states THEN node_states ELSE Put(node_states, node_id, new_state)

node_state_changed(node_id, new_state) == Put(node_states, node_id, new_state)

\* handle_node_events: receive the next NodeStateEvent; StateChanged goes
\* to node_state_changed, the others to the *_added functions; every one
\* reports state_modified, so a state event is sent
handle_node_events ==
    /\ node_event_handled < Len(state_tx)
    /\ LET event == state_tx[node_event_handled + 1] IN
       node_states' = IF event.type = "StateChanged"
                      THEN node_state_changed(event.node, event.id)
                      ELSE node_states
    /\ node_event_handled' = node_event_handled + 1
    /\ state_event_tx_send
    /\ UNCHANGED <<graphs, nodes, state_representation, subscribers_to_state, state_rx, observed,
                   last_add_node, set_node_state_calls>>
    /\ UNCHANGED <<nodeVars, poolVars>>
    /\ UNCHANGED <<apply_state_calls, panicked, ioVars, tasks>>

\* get_state, the connection maps: built from video_connections alone
\* (audio_connections is not read); the Vec of inputs of an output as a set
connections_of(conns) ==
    [connections |-> conns,
     output_to_input_connections |-> [o \in Range(conns) |-> {i \in DOMAIN conns : conns[i] = o}]]

\* PhaneronState::get_state: of the nodes map every entry that has an entry
\* in node_states, with that state; the connection maps. The graphs and the
\* lists of inputs and outputs are left out.
\* (variant: every entry of the nodes map, without a state if it has none)
get_state_unfiltered ==
    [nodes |-> [n \in DOMAIN nodes |-> IF n \in DOMAIN node_states THEN node_states[n] ELSE None],
     connections |-> connections_of(video_connections).connections,
     output_to_input_connections |-> connections_of(video_connections).output_to_input_connections]

get_state ==
    [nodes |-> [n \in {m \in DOMAIN nodes : m \in DOMAIN node_states} |-> node_states[n]],
     connections |-> connections_of(video_connections).connections,
     output_to_input_connections |-> connections_of(video_connections).output_to_input_connections]

\* handle_state: receive a state event; Lagged is logged and the loop goes
\* on, Ok calls notify_state, whose first half builds the representation
handle_state ==
    /\ state_representation = NoState
    /\ IF state_event_lagged
       THEN /\ state_event_lagged' = FALSE
            /\ UNCHANGED <<state_event_rx, state_representation>>
       ELSE /\ state_event_rx > 0
            /\ state_event_rx' = state_event_rx - 1
            /\ state_representation' = get_state
            /\ UNCHANGED state_event_lagged
    /\ UNCHANGED <<graphs, nodes, node_states, node_event_handled, subscribers_to_state, state_rx, observed,
                   last_add_node, set_node_state_calls>>
    /\ UNCHANGED <<nodeVars, poolVars>>
    /\ UNCHANGED <<apply_state_calls, panicked, ioVars, tasks>>

\* notify_state, second half: lock subscribers_to_state and send the
\* representation to each in turn, unwrapping the result: the first failed
\* send panics and ends the task of handle_state; a broadcast channel of
\* capacity 1 keeps the latest
notify_state ==
    \* broadcast::Sender::send fails when the channel has no Receiver left
    LET failing == {j \in DOMAIN subscribers_to_state : state_rx[j] = Gone}
        reached == {j \in DOMAIN subscribers_to_state : \A f \in failing : j < f}
    IN
    /\ state_representation \notin {NoState, Gone}
    /\ subscribers_to_state' = [j \in DOMAIN subscribers_to_state |->
                                   IF j \in reached THEN state_representation ELSE subscribers_to_state[j]]
    /\ state_representation' = IF failing = {} THEN NoState ELSE Gone
    /\ UNCHANGED <<graphs, nodes, node_states, node_event_handled, state_event_rx, state_event_lagged,
                   state_rx, observed, last_add_node, set_node_state_calls>>
    /\ UNCHANGED <<nodeVars, poolVars>>
    /\ UNCHANGED <<apply_state_calls, panicked, ioVars, tasks>>

\* PhaneronState::subscribe: a new channel of capacity 1, the current
\* state sent into it, the sender pushed to subscribers_to_state.
\* initialize_api is the one caller, once; scenario "subs" has a second
\* caller
subscribe ==
    /\ Len(subscribers_to_state) < (IF scenario = "subs" THEN 2 ELSE 1)
    /\ subscribers_to_state' = Append(subscribers_to_state, get_state)
    /\ state_rx' = Append(state_rx, NoState)
    /\ observed' = Append(observed, {})
    /\ UNCHANGED <<graphs, nodes, node_states, node_event_handled, state_event_rx, state_event_lagged,
                   state_representation, last_add_node, set_node_state_calls>>
    /\ UNCHANGED <<nodeVars, poolVars>>
    /\ UNCHANGED <<apply_state_calls, panicked, ioVars, tasks>>

\* a subscriber's Receiver::recv (api.rs): the unread snapshot
state_rx_recv(j) ==
    /\ j \in DOMAIN subscribers_to_state
    /\ state_rx[j] # Gone
    /\ subscribers_to_state[j] # NoState
    /\ state_rx' = [state_rx EXCEPT ![j] = subscribers_to_state[j]]
    /\ observed' = [observed EXCEPT ![j] = @ \cup DOMAIN state_rx[j].nodes]
    /\ subscribers_to_state' = [subscribers_to_state EXCEPT ![j] = NoState]
    /\ UNCHANGED <<graphs, nodes, node_states, node_event_handled, state_event_rx, state_event_lagged,
                   state_representation, last_add_node, set_node_state_calls>>
    /\ UNCHANGED <<nodeVars, poolVars>>
    /\ UNCHANGED <<apply_state_calls, panicked, ioVars, tasks>>

\* create_phaneron_state and add_grah("G1"): no node yet
RegistryInit == InitFor({"reg"})

RegistryNext ==
    \/ \E call \in AddNodeCalls : add_node(call[1], call[2])
    \/ \E n \in Nodes : \E s \in States : set_node_state(n, s)
    \/ handle_node_events
    \/ handle_state
    \/ notify_state
    \/ subscribe
    \/ \E j \in DOMAIN subscribers_to_state : state_rx_recv(j)
    \/ \E n \in Nodes : GateFail(n)
    \/ \E n \in Nodes : GatePass(n)
    \/ \E n \in Nodes : ProcessStart(n)
    \/ \E n \in Nodes : NodeSubmit(n)
    \/ \E n \in Nodes : ProcessReturn(n)
    \/ \E n \in Nodes : AckUpstream(n)

RegistrySpec == RegistryInit /\ [][RegistryNext]_vars

\* the registry with connections: P and M of scenario "av" wait at their
\* gates and register the audio ports they declare late, the control plane
\* connects video and audio, the registry handles the node events and
\* publishes to the subscriber
ConnectionInit == InitFor({"av"})

ConnectionNext ==
    \/ \E i \in InputIds : NodeContext_add_input(i)
    \/ \E o \in OutputIds : NodeContext_add_output(o)
    \/ \E n \in Nodes : GateFail(n)
    \/ \E r \in Requests(scenario) : get_pipe(r)
    \/ connect_pipe
    \/ handle_node_events
    \/ handle_state
    \/ notify_state
    \/ subscribe
    \/ \E j \in DOMAIN subscribers_to_state : state_rx_recv(j)

ConnectionSpec == ConnectionInit /\ [][ConnectionNext]_vars

\* the pending state cell alone: node C, without inputs or outputs, runs;
\* the control plane sets its state again and again
PendingStateInit == InitFor({"state"})

PendingStateNext ==
    \/ \E n \in Nodes : \E s \in States : set_node_state(n, s)
    \/ \E n \in Nodes : GatePass(n)
    \/ \E n \in Nodes : ProcessStart(n)
    \/ \E n \in Nodes : NodeSubmit(n)
    \/ \E n \in Nodes : ProcessReturn(n)
    \/ \E n \in Nodes : AckUpstream(n)

PendingStateSpec == PendingStateInit /\ [][PendingStateNext]_vars

\* ------------------------------------------------------------- properties
Pipes == DOMAIN receiver

\* the node whose output a pipe subscribes to
Producer(p) == NodeOf(receiver[p].id)

Frames(q) == [j \in DOMAIN q |-> q[j].frame]

IsPrefix(a, b) == Len(a) <= Len(b) /\ \A j \in DOMAIN a : a[j] = b[j]

\* every (node, input, pipe) of the connected pipe maps
Connections ==
    UNION {{[node |-> c, input |-> i, pipe |-> ConnectedPipes(c, KindOf(i))[i].pipe] :
                i \in DOMAIN connected_video_pipes[c] \cup DOMAIN connected_audio_pipes[c]} : c \in Nodes}

\* the frames Channel::send has handed to pipe p: the completed sends, and
\* the send in progress once its loop is past p
Delivered(p) ==
    LET o == receiver[p].id
        n == Producer(p)
    IN  IF sending[n].out = o /\ \E j \in 1..(sending[n].i - 1) : senders[o][j] = p
        THEN Append(sent[o], sending[n].frame)
        ELSE sent[o]

\* the frames pipe p has yielded from next_frame, then the one it holds
Received(p) == Frames(yielded[p]) \o Frames(receiver[p].queue)

\* a registered input without a pipe, or a registered output without subscriber
Unready(n) ==
    \/ \E i \in Range(video_input_ids[n]) : i \notin DOMAIN connected_video_pipes[n]
    \/ \E i \in Range(audio_input_ids[n]) : i \notin DOMAIN connected_audio_pipes[n]
    \/ \E o \in video_outputs[n] \cup audio_outputs[n] : senders[o] = <<>>

\* the scheduler of n is between two process_frame invocations and cannot
\* start the next one: it spins at the head of the loop, or it awaits a frame
Parked(n) ==
    \/ pc[n] = "gate" /\ ~ENABLED GatePass(n)
    \/ pc[n] = "recv" /\ ~ENABLED GatherRecv(n)

\* C1: in every iteration that invokes process_frame the upstream semaphores
\* received while gathering are signalled only when every downstream
\* semaphore created by the sends of that iteration has resolved (signalled
\* or dropped), no semaphore is ever signalled twice, and when the scheduler
\* is back at the head of the loop each of them has been signalled once.
C1_AckAfterBarrier ==
    /\ \A s \in DOMAIN signals : signals[s] <= 1
    /\ \A n \in Nodes : \A u \in tick_upstream[n] :
          /\ signals[u] >= 1 => \A d \in tick_sems[n] : sem[d] # "pending"
          /\ pc[n] = "gate" => signals[u] = 1

\* a node with an upstream and a downstream has finished an iteration
C1_Witness ==
    \E n \in Nodes :
        /\ pc[n] = "gate"
        /\ tick_upstream[n] # {}
        /\ tick_sems[n] # {}
        /\ \A u \in tick_upstream[n] : signals[u] = 1

\* C2: while an open pipe holds a delivery nobody has read, the node that
\* pushed it is still inside that iteration (in process_frame or at the
\* barrier), has not completed it and has signalled none of the upstream
\* semaphores it received; once the send has returned every other open pipe
\* subscribed before it has that frame exactly once; no pipe yields a frame
\* twice.
C2_UnreadPipeHoldsProducer ==
    /\ \A p \in Pipes :
          (receiver[p].open /\ receiver[p].queue # <<>>) =>
             LET n == Producer(p)
                 f == Head(receiver[p].queue).frame
             IN
             /\ pc[n] \in {"process", "barrier"}
             /\ completed[n] = started[n] - 1
             /\ \A u \in tick_upstream[n] : signals[u] = 0
             /\ sending[n] = NoSend =>
                   \A q \in Pipes :
                      (receiver[q].id = receiver[p].id /\ receiver[q].open /\ receiver[q].since < f.n) =>
                          Cardinality({j \in DOMAIN Received(q) : Received(q)[j] = f}) = 1
    /\ \A q \in Pipes : \A j, k \in DOMAIN yielded[q] :
          j # k => yielded[q][j].frame # yielded[q][k].frame

\* a producer with an upstream waits at the barrier on a pipe that holds the
\* frame unread, while the reader of another pipe of the same channel has
\* taken that frame and acknowledged it
C2_Witness ==
    \E p, q \in Pipes :
        /\ p # q
        /\ receiver[p].id = receiver[q].id
        /\ receiver[p].open /\ receiver[p].queue # <<>>
        /\ pc[Producer(p)] = "barrier"
        /\ tick_upstream[Producer(p)] # {}
        /\ \E j \in DOMAIN yielded[q] : yielded[q][j].frame = Head(receiver[p].queue).frame
        /\ signals[Semaphore(q, Head(receiver[p].queue).frame.n)] = 1


\* n has pushed one frame on o in each of its earlier process_frame
\* invocations, and at most one in the current one
OneFramePerTick(n, o) ==
  \* the frames node n has pushed on output o so far, the one being sent included
  LET Pushes(n_, o_) == IF sending[n_].out = o_ THEN Append(sent[o_], sending[n_].frame) ELSE sent[o_]
  IN
      /\ Len(Pushes(n, o)) >= started[n] - 1
      /\ \A j \in DOMAIN Pushes(n, o) : Pushes(n, o)[j].tick = j

C4_PipeYieldsSends ==
    \A o \in OutputIds :
        (\A j \in DOMAIN senders[o] : receiver[senders[o][j]].open /\ receiver[senders[o][j]].since = 0) =>
            \A j \in DOMAIN senders[o] :
                /\ Received(senders[o][j]) = Delivered(senders[o][j])
                /\ Len(receiver[senders[o][j]].queue) <= 1

\* two subscribers, two sends, both pipes have yielded both frames
C4_Witness ==
    \E o \in OutputIds :
        /\ Len(senders[o]) = 2
        /\ Len(sent[o]) = 2
        /\ \A j \in DOMAIN senders[o] :
              /\ receiver[senders[o][j]].open
              /\ receiver[senders[o][j]].since = 0
              /\ Frames(yielded[senders[o][j]]) = sent[o]

\* C5: while a node is in process_frame or at the barrier of iteration N,
\* each of its connected audio and video pipes has yielded exactly one frame
\* for iteration N; the frames a pipe yields are for strictly increasing
\* iterations, and a frame for iteration N+1 is only taken once iteration N
\* is over (the scheduler is gathering again).
C5_OneFramePerInput ==
    \A x \in Connections :
        LET n == x.node
            y == yielded[x.pipe]
        IN
        /\ pc[n] \in {"process", "barrier"} =>
              Cardinality({j \in DOMAIN y : y[j].tick = started[n]}) = 1
        /\ \A j, k \in DOMAIN y : j < k => y[j].tick < y[k].tick
        /\ \A j \in DOMAIN y : y[j].tick <= started[n] + 1
        /\ (\E j \in DOMAIN y : y[j].tick = started[n] + 1) => pc[n] \in {"gather", "recv"}

\* a node with a connected audio and a connected video input is in its
\* second process_frame
C5_Witness ==
    \E n \in Nodes :
        /\ pc[n] = "process"
        /\ started[n] = 2
        /\ DOMAIN connected_audio_pipes[n] # {}
        /\ DOMAIN connected_video_pipes[n] # {}

C7_UnconnectedNeverInvoked ==
    /\ \A i \in InitialPorts(scenario) \cap VideoInputIds :
          i \notin DOMAIN connected_video_pipes[NodeOf(i)] =>
             /\ pc[NodeOf(i)] = "gate"
             /\ started[NodeOf(i)] = 0
             /\ process_log[NodeOf(i)] = <<>>
             /\ previous_black_frame[NodeOf(i)] = NoBlack
    /\ \A n \in Nodes : \A j \in DOMAIN process_log[n] :
          /\ \A i \in DOMAIN process_log[n][j].video_frames : process_log[n][j].video_frames[i].id # "black"
          /\ \A i \in DOMAIN process_log[n][j].audio_frames : process_log[n][j].audio_frames[i].id # "silence"

\* M's input is unconnected while its output has a connected subscriber
C7_Witness ==
    /\ scenario = "chain"
    /\ "mv" \notin DOMAIN connected_video_pipes["M"]
    /\ "ci" \in DOMAIN connected_video_pipes["C"]
    /\ pc["M"] = "gate"

\* C7 as stated: a node with one declared, unconnected video input and a
\* subscriber on its output goes on to invoke process_frame
C7_Original ==
    \A n \in Nodes :
        ( /\ pc[n] = "gate"
          /\ Len(video_input_ids[n]) = 1
          /\ DOMAIN connected_video_pipes[n] = {}
          /\ video_outputs[n] # {}
          /\ \A o \in video_outputs[n] : senders[o] # <<>> ) =>
            ENABLED GatePass(n)

C9_Setup(x) ==
    LET c == x.node
        n == Producer(x.pipe)
    IN
    /\ KindOf(x.input) = "video"
    /\ receiver[x.pipe].since = 0
    /\ Len(video_input_ids[c]) = 1 /\ Len(audio_input_ids[c]) = 0
    /\ video_outputs[c] = {} /\ audio_outputs[c] = {}
    /\ Cardinality(video_outputs[n]) = 1 /\ audio_outputs[n] = {}
    /\ Len(video_input_ids[n]) = 0 /\ Len(audio_input_ids[n]) = 0

C9_Got(x) == [j \in DOMAIN process_log[x.node] |-> process_log[x.node][j].video_frames[x.input].frame]

\* C has been handed every frame P pushed and awaits the next; P is at the
\* head of its loop
C9_AfterLastTick(x) ==
    /\ sent[receiver[x.pipe].id] # <<>>
    /\ C9_Got(x) = sent[receiver[x.pipe].id]
    /\ pc[x.node] = "recv"
    /\ pc[Producer(x.pipe)] = "gate"
    /\ started[Producer(x.pipe)] < MaxTicks

\* C9 (as the code has it): the frames C's process_frame invocations were
\* handed are the frames P pushed, in production order, one invocation per
\* frame: when P is at the head of its loop and C awaits its pipe, C has been
\* invoked exactly N times. After the last tick C's scheduler is parked on
\* its input pipe; P's scheduler is not parked: it goes on to invoke
\* process_frame again.
C9_InOrderConsumerParked ==
    \A x \in Connections :
        C9_Setup(x) =>
            /\ IsPrefix(C9_Got(x), Delivered(x.pipe))
            /\ (pc[x.node] = "recv" /\ receiver[x.pipe].queue = <<>> /\ sending[Producer(x.pipe)] = NoSend) =>
                   C9_Got(x) = sent[receiver[x.pipe].id]
            /\ C9_AfterLastTick(x) => Parked(x.node) /\ ~Parked(Producer(x.pipe))

\* P has pushed two frames, C has been invoked with both and awaits a third
C9_Witness ==
    \E x \in Connections :
        /\ C9_Setup(x)
        /\ Len(sent[receiver[x.pipe].id]) = 2
        /\ C9_Got(x) = sent[receiver[x.pipe].id]
        /\ Parked(x.node)
        /\ pc[Producer(x.pipe)] = "gate"

\* C9 as stated: in order, exactly N invocations, and after the last tick
\* both schedulers are parked
C9_Original ==
    \A x \in Connections :
        C9_Setup(x) =>
            /\ IsPrefix(C9_Got(x), Delivered(x.pipe))
            /\ C9_AfterLastTick(x) => Parked(x.node) /\ Parked(Producer(x.pipe))

\* C10: on the ProcessFrameContext of an invocation the first submit()
\* returns Ok with a FrameContext and every later one returns the
\* already-submitted error; the node keeps the FrameContext of the first call
\* whatever the later calls returned.
C10_SubmitOnce ==
    \A n \in Nodes :
        /\ submit_calls[n] = 0 => (last_submit[n] = None /\ ~submitted[n])
        /\ submit_calls[n] = 1 => last_submit[n] = "Ok"
        /\ submit_calls[n] >= 2 => last_submit[n] = "Err"
        /\ submit_calls[n] >= 1 => (frame_context[n] /\ submitted[n])

\* a second submit() has failed and the node can still push with the
\* FrameContext of the first
C10_Witness ==
    \E n \in Nodes :
        /\ submit_calls[n] = 2
        /\ last_submit[n] = "Err"
        /\ \E o \in OutputIds : ENABLED NodePush(n, o)

\* C11 as stated: push_frame (like copy_frame, which takes the same
\* FrameContext argument) is only executed after the submit() of the
\* process_frame invocation it belongs to: whenever an invocation has pushed
\* a frame, submit() has succeeded on the ProcessFrameContext of that
\* invocation.
C11_Original ==
    \A n \in Nodes : (pc[n] = "process" /\ pushed[n] # {}) => submitted[n]


\* C12 as stated: every slot of the pool that a live VideoBufferRef points to
\* is marked not available, whether create_image reused or created it.
C12_Original ==
  \* the VideoBufferRefs that some VideoFrame still holds
  LET LiveRefs == {r \in DOMAIN video_buffer_refs : video_buffer_refs[r].holders >= 1}
  IN
      \A r \in LiveRefs : ~video_buffers[video_buffer_refs[r].video_buffer_index].available

\* C13: when create_image is asked for a width and height that an available
\* slot has, it returns the lowest such slot and the pool does not grow; so
\* a slot released by its last holder and marked by the release task is the
\* one returned, unless a lower slot fits as well.
C13_FirstFitReuse ==
    (last_image # NoImage /\ last_image.fits # {}) =>
        /\ last_image.index \in last_image.fits
        /\ \A k \in last_image.fits : last_image.index <= k
        /\ Len(video_buffers) = last_image.len
        /\ video_buffer_refs[Len(video_buffer_refs)].video_buffer_index = last_image.index

\* two slots of one size were released and marked; the latest create_image
\* of that size returned the lower one, and the pool still has two slots
C13_Witness ==
    /\ last_image # NoImage
    /\ Cardinality(last_image.fits) = 2
    /\ last_image.fits \subseteq drained
    /\ Len(video_buffers) = 2
    /\ last_image.len = 2
    /\ last_image.index = 1

\* C14: connect_video_pipe / connect_audio_pipe store the mapping exactly when
\* the input is declared and not yet connected; an undeclared input gives
\* InputDoesNotExist, a connected one InputAlreadyConnectedTo, and in both
\* error cases the connected map is what it was before the call.
C14_ConnectStoresIffFree ==
    last_connect # NoConnect =>
        LET i == last_connect.to
            now == ConnectedPipes(NodeOf(i), KindOf(i))
            free == i \notin DOMAIN last_connect.before
        IN
        /\ (last_connect.result = "Ok") <=> (last_connect.declared /\ free)
        /\ (last_connect.result = "InputDoesNotExist") <=> ~last_connect.declared
        /\ (last_connect.result = "InputAlreadyConnectedTo") <=> (last_connect.declared /\ ~free)
        /\ last_connect.result = "Ok" =>
               now = Put(last_connect.before, i,
                         [id |-> receiver[last_connect.pipe].id, pipe |-> last_connect.pipe])
        /\ last_connect.result # "Ok" => now = last_connect.before

C14_Witness ==
    /\ last_connect.result = "InputAlreadyConnectedTo"
    /\ last_connect.to \in DOMAIN last_connect.before
    /\ \E k \in DOMAIN make_connection_result : make_connection_result[k] = "Ok"

\* C15: the keys of the connected maps are declared inputs; an entry, once
\* set, keeps its output and pipe for good; the input lists and the output
\* maps never lose an entry.
C15_ConnectionsOnlyGrow ==
    [][\A n \in Nodes : \A kind \in {"video", "audio"} :
          /\ DOMAIN ConnectedPipes(n, kind) \subseteq Range(InputIdsOf(n, kind))
          /\ DOMAIN ConnectedPipes(n, kind)' \subseteq Range(InputIdsOf(n, kind)')
          /\ \A i \in DOMAIN ConnectedPipes(n, kind) :
                /\ i \in DOMAIN ConnectedPipes(n, kind)'
                /\ ConnectedPipes(n, kind)'[i] = ConnectedPipes(n, kind)[i]
          /\ IsPrefix(InputIdsOf(n, kind), InputIdsOf(n, kind)')
          /\ video_outputs[n] \subseteq video_outputs'[n]
          /\ audio_outputs[n] \subseteq audio_outputs'[n]]_vars

\* a second connection to a connected input was refused and the first stands
C15_Witness ==
    /\ last_connect.result = "InputAlreadyConnectedTo"
    /\ ConnectedPipes(NodeOf(last_connect.to), KindOf(last_connect.to))[last_connect.to].pipe
           # last_connect.pipe

\* C16: make_video_connection / make_audio_connection hand a missing
\* from-node, to-node, output or input and an already connected input back to
\* the caller as an error result instead of aborting, and the registry's
\* connection maps are then unchanged.
C16_Original ==
    /\ \A k \in DOMAIN make_connection_result : make_connection_result[k] \in {"Ok", "Err"}
    /\ \A i \in DOMAIN video_connections \cup DOMAIN audio_connections :
          \E r \in Requests(scenario) :
              r.to = i /\ r.k \in DOMAIN make_connection_result /\ make_connection_result[r.k] = "Ok"

\* C17: add_node on a graph id that does not exist returns GraphMissing, with
\* a node type no plugin provides it returns UnknownNodeType; in both cases
\* no node is added to the graph's node list or the node map and no
\* scheduler is spawned.
C17_Original ==
    last_add_node # NoAddNode =>
        LET g == last_add_node.graph
            n == last_add_node.node
        IN
        /\ g \notin DOMAIN graphs => last_add_node.result = "GraphDoesNotExist"
        /\ (g \in DOMAIN graphs /\ NodeType(n) \notin nodes_provided_by_plugins) =>
               last_add_node.result = "NodeTypeDoesNotExist"
        /\ last_add_node.result # "Ok" =>
               /\ n \notin DOMAIN nodes
               /\ \A h \in DOMAIN graphs : n \notin Range(graphs[h])
               /\ pc[n] = "absent"


\* the states of the StateChanged events of a node the registry has processed
HandledStates(n) ==
  \* the events handle_node_events has received
  LET HandledEvents == SubSeq(state_tx, 1, node_event_handled)
  IN
      LET sel == SelectSeq(HandledEvents, LAMBDA e : e.type = "StateChanged" /\ e.node = n)
      IN  [j \in 1..Len(sel) |-> sel[j].id]

\* every representation there is: being published, unread in a subscriber's
\* channel, or last received by a subscriber
Representations == {state_representation} \cup Range(subscribers_to_state) \cup Range(state_rx)

\* C18: every node in the nodes map of a snapshot, published or returned on
\* subscribe, is one whose StateChanged event the registry has processed; a
\* node whose initial state was rejected or whose StateChanged is not yet
\* handled is absent.
C18_SnapshotNodesHaveState ==
    \A r \in Representations : \A n \in DOMAIN r.nodes : HandledStates(n) # <<>>

\* a snapshot was received that has C, whose initial state was accepted and
\* handled, and not P, which is in the node map with its initial state rejected
C18_Witness ==
    \E j \in DOMAIN state_rx :
        /\ "C" \in DOMAIN state_rx[j].nodes
        /\ "P" \in DOMAIN nodes
        /\ "P" \notin DOMAIN state_rx[j].nodes
        /\ \A e \in Range(state_tx) : ~(e.type = "StateChanged" /\ e.node = "P")

\* C19: in the snapshots one subscriber receives, a node id that has appeared
\* in snapshot.nodes appears in every later snapshot.
C19_Original ==
    \A j \in DOMAIN state_rx :
        state_rx[j] # NoState => observed[j] \subseteq DOMAIN state_rx[j].nodes

\* C20 as stated: after set_node_state(G, N, s), apply_state(s) is invoked on
\* N's next scheduler iteration: a node at the head of its loop with a
\* pending state passes the gate and takes it.
C20_Original ==
    \A n \in Nodes : (pc[n] = "gate" /\ pending_state[n] # None) => ~GateFails(n)

\* C20: the pending state set by set_node_state is taken only by an iteration
\* of the node's scheduler that passes the connectivity gate, and such an
\* iteration takes it; apply_state gets the cell's value and, if it answers
\* true, StateChanged(N, s) is emitted; every representation built from then
\* on gives each node of the node map the state of the last StateChanged
\* event the registry has handled for it.
C20_AppliedWhenGatePasses ==
    [][/\ \A n \in Nodes :
            /\ (pending_state[n] # None /\ pending_state'[n] = None) =>
                   /\ pc[n] = "gate"
                   /\ ~GateFails(n)
                   /\ \/ state_tx' = state_tx
                      \/ state_tx' = Append(state_tx, [type |-> "StateChanged", node |-> n,
                                                       id |-> pending_state[n]])
            /\ (pending_state[n] # None /\ pc[n] = "gate" /\ pc'[n] # "gate") =>
                   pending_state'[n] = None
       /\ \A r \in Representations' \ (Representations \cup {NoState}) :
            \A n \in DOMAIN nodes :
                HandledStates(n) # <<>> =>
                    /\ n \in DOMAIN r.nodes
                    /\ r.nodes[n] = HandledStates(n)[Len(HandledStates(n))]]_vars

\* C accepted "s1", the registry handled the event, and the subscriber has
\* received a snapshot with that state
C20_Witness ==
    /\ HandledStates("C") # <<>>
    /\ HandledStates("C")[Len(HandledStates("C"))] = "s1"
    /\ \E j \in DOMAIN state_rx : "C" \in DOMAIN state_rx[j].nodes /\ state_rx[j].nodes["C"] = "s1"

\* the StateChanged events of a node, handled or not, as states
EmittedStates(n) ==
    LET sel == SelectSeq(state_tx, LAMBDA e : e.type = "StateChanged" /\ e.node = n)
    IN  [j \in 1..Len(sel) |-> sel[j].id]

\* C21: the state the registry stores for a node, and shows in snapshots, is
\* the latest accepted one it has been told of: a StateChanged event is
\* emitted only for a state apply_state accepted, the stored state is that of
\* the last StateChanged event handled; a rejected state emits no event,
\* leaves the stored state alone and the scheduler goes on to gather.
C21_StoredStateIsLastAccepted ==
    /\ [](\A n \in Nodes :
            /\ n \in DOMAIN node_states <=> HandledStates(n) # <<>>
            /\ n \in DOMAIN node_states => node_states[n] = HandledStates(n)[Len(HandledStates(n))]
            /\ \A r \in Representations : n \in DOMAIN r.nodes =>
                   \E j \in DOMAIN HandledStates(n) : r.nodes[n] = HandledStates(n)[j])
    /\ [][\A n \in Nodes :
            /\ EmittedStates(n)' # EmittedStates(n) =>
                   \/ /\ pc[n] = "absent"
                      /\ EmittedStates(n)' = <<"s0">>
                   \/ /\ pending_state[n] # None
                      /\ pending_state'[n] = None
                      /\ EmittedStates(n)' = Append(EmittedStates(n), pending_state[n])
            /\ (pending_state[n] # None /\ pending_state'[n] = None
                    /\ EmittedStates(n)' = EmittedStates(n)) =>
                   /\ node_states' = node_states
                   /\ pc'[n] = "gather"]_vars

\* C rejected "s1" after its initial state "s0" was accepted and stored; it
\* has gone on to finish the tick
C21_Witness ==
    /\ set_node_state_calls >= 1
    /\ \A n \in Nodes : pending_state[n] = None
    /\ EmittedStates("C") = <<"s0">>
    /\ "C" \in DOMAIN node_states
    /\ node_states["C"] = "s0"
    /\ completed["C"] >= 1


\* C22: set_node_state overwrites the one pending state cell: of several
\* values written before the scheduler takes the cell only the last is
\* passed to apply_state, and each written value is passed at most once
\* (C is the one node written to; its apply_state calls are in the order of
\* the writes, without repetition, and an empty cell means the last value
\* written is the last one applied).
C22_LastWriteAppliedOnce ==
  \* the call that wrote a state string
  LET CallOf(s) == CHOOSE k \in 1..4 : StateOfCall(k) = s
  IN
      LET calls == apply_state_calls["C"] IN
      /\ \A j \in DOMAIN calls : \A k \in DOMAIN calls : j < k => CallOf(calls[j]) < CallOf(calls[k])
      /\ \A j \in DOMAIN calls : CallOf(calls[j]) <= set_node_state_calls
      /\ pending_state["C"] # None =>
             /\ pending_state["C"] = StateOfCall(set_node_state_calls)
             /\ \A j \in DOMAIN calls : calls[j] # pending_state["C"]
      /\ (pending_state["C"] = None /\ set_node_state_calls > 0) =>
             /\ calls # <<>>
             /\ calls[Len(calls)] = StateOfCall(set_node_state_calls)

\* two values were written before the scheduler took the cell: the first
\* was never applied, the second was
C22_Witness ==
    /\ set_node_state_calls = 2
    /\ apply_state_calls["C"] = <<"s2">>


\* C23: after every registry change, a make_*_connection included, a
\* snapshot reflecting it is broadcast to every subscriber without a further
\* change: once nothing is on its way any more, the snapshot each subscriber
\* was sent last shows the connections of the registry.
C23_Original ==
  \* nothing is on its way to the subscribers: no node event unhandled, no
  \* state event unread, no representation being sent
  LET Quiescent ==
          /\ node_event_handled = Len(state_tx)
          /\ state_event_rx = 0
          /\ ~state_event_lagged
          /\ state_representation = NoState
          /\ pending_conn = NoConn
  IN
    \* the snapshot a subscriber has been sent last
    LET Latest(j) == IF subscribers_to_state[j] # NoState THEN subscribers_to_state[j] ELSE state_rx[j]
    IN
        Quiescent =>
            \A j \in DOMAIN subscribers_to_state :
                \A i \in DOMAIN video_connections :
                    /\ i \in DOMAIN Latest(j).connections
                    /\ Latest(j).connections[i] = video_connections[i]

\* C29: after make_audio_connection(from, out, to, in) has succeeded, the
\* snapshots built from then on have connections[in] = out and list in
\* under output_to_input_connections[out], as for a video connection.
C29_Original ==
    [][\A r \in Representations' \ (Representations \cup {NoState}) :
          \A i \in DOMAIN audio_connections \cup DOMAIN video_connections :
              LET out == IF i \in DOMAIN audio_connections THEN audio_connections[i]
                         ELSE video_connections[i]
              IN  /\ i \in DOMAIN r.connections
                  /\ r.connections[i] = out
                  /\ out \in DOMAIN r.output_to_input_connections
                  /\ i \in r.output_to_input_connections[out]]_vars

\* ------------------------------------------------------------------- C24

\* C24 (as stated): no_receivers() is true exactly when the channel has no
\* live subscriber: true before any subscribe, false while a subscribed pipe
\* is alive, true again once every subscribed pipe has been dropped
C24_Original ==
  \* the subscribed pipes of an output's channel that have not been dropped
  LET LiveSubscribers(o) == {j \in DOMAIN senders[o] : receiver[senders[o][j]].open}
  IN
                  \A o \in OutputIds : no_receivers(o) <=> LiveSubscribers(o) = {}

\* ------------------------------------------------------------------- C27
\* a producer and a consumer, connected once; the producer's frames are
\* 512x2, 256x1, 512x2
BlackInit == InitFor({"black"})

BlackNext ==
    \/ \E r \in Requests(scenario) : get_pipe(r)
    \/ connect_pipe
    \/ \E n \in Nodes : GateFail(n)
    \/ \E n \in Nodes : GatePass(n)
    \/ \E n \in Nodes : GatherLock(n)
    \/ \E n \in Nodes : GatherRecv(n)
    \/ \E n \in Nodes : ProcessStart(n)
    \/ \E n \in Nodes : NodeSubmit(n)
    \/ \E n \in Nodes, o \in OutputIds : NodePush(n, o)
    \/ \E n \in Nodes : SendStep(n)
    \/ \E n \in Nodes : ProcessReturn(n)
    \/ \E n \in Nodes : BarrierAwait(n)
    \/ \E n \in Nodes : AckUpstream(n)

BlackSpec == BlackInit /\ [][BlackNext]_vars


\* C27 (as stated): with a black frame cached, an iteration creates a new
\* black frame only when an incoming frame's width or height exceeds the
\* cached frame's dimensions; every other iteration hands the cached frame
\* to process_frame again and creates none
C27_Original ==
  [][LET \* some frame received in this iteration is wider or higher than the
         \* black frame the scheduler has cached
         ExceedsCached(n) ==
             \E i \in DOMAIN video_frames[n] :
                 \/ video_frames[n][i].frame.width > previous_black_frame[n].frame.width
                 \/ video_frames[n][i].frame.height > previous_black_frame[n].frame.height
     IN
     \A n \in Nodes :
         (pc[n] = "gather" /\ pc'[n] = "process" /\ previous_black_frame[n] # NoBlack) =>
             /\ black_created'[n] # black_created[n] => ExceedsCached(n)
             /\ ~ExceedsCached(n) =>
                   /\ black_created'[n] = black_created[n]
                   /\ previous_black_frame'[n].frame = previous_black_frame[n].frame
                   /\ process_log'[n][Len(process_log'[n])].black.frame = previous_black_frame[n].frame]_vars

\* ------------------------------------------------------------- C25, C26
\* node.process_frame panics on the thread run_node spawned for it, outside
\* Channel::send: the thread unwinds and drops what it owns, the frame maps,
\* the ProcessFrameContextImpl and the mpsc sender of the completion
\* message; "receiver.recv().await" of the scheduler then returns None, the
\* value is not looked at, and the scheduler goes on to cache the black
\* frame and drain the semaphore provider as after a return
process_frame_panics(n) ==
    /\ pc[n] = "process"
    /\ sending[n] = NoSend
    /\ ~panicked[n]
    /\ panicked' = [panicked EXCEPT ![n] = TRUE]
    /\ submitted' = [submitted EXCEPT ![n] = FALSE]
    /\ frame_context' = [frame_context EXCEPT ![n] = FALSE]
    /\ submit_calls' = [submit_calls EXCEPT ![n] = 0]
    /\ last_submit' = [last_submit EXCEPT ![n] = None]
    /\ pushed' = [pushed EXCEPT ![n] = {}]
    /\ downstream_semaphores' = [downstream_semaphores EXCEPT ![n] = semaphores[n]]
    /\ semaphores' = [semaphores EXCEPT ![n] = <<>>]
    /\ pc' = [pc EXCEPT ![n] = "barrier"]
    /\ UNCHANGED <<idx, run_node_context, upstream_semaphores, audio_frames, video_frames,
                   previous_black_frame, previous_silence_frame>>
    /\ UNCHANGED <<senders, receiver, sem, sending>>
    /\ UNCHANGED <<ctxVars, ctlVars, histVars>>
    /\ UNCHANGED <<poolVars, registryVars, apply_state_calls, ioVars, tasks>>

\* the producer of an output goes away: the last clone of its Channel is
\* dropped and with it ChannelInner.senders, the mpsc senders of its pipes
ChannelDropped(o) ==
    /\ senders[o] # <<>>
    /\ ~ChannelLocked(o)
    /\ pending_conn = NoConn
    /\ requested = {r.k : r \in Requests(scenario)}
    /\ senders' = [senders EXCEPT ![o] = <<>>]
    /\ UNCHANGED <<receiver, semaphores, sem>>
    /\ UNCHANGED <<ctxVars, runVars, procVars, ctlVars, histVars>>
    /\ UNCHANGED <<poolVars, regVars>>

\* tokio mpsc Receiver::recv returns None: nothing is queued and every
\* sender of the pipe has been dropped
EndOfStream(p) ==
    /\ receiver[p].queue = <<>>
    /\ \A j \in DOMAIN senders[receiver[p].id] : senders[receiver[p].id][j] # p

\* the gather loops, next_frame returned None: the input is pushed to
\* inputs_requiring_black_frames / _silence and
\* todo!("Tell context to disconnect pipe") panics: the run_node task
\* unwinds, dropping the upstream semaphores it has collected this
\* iteration; the connected pipe map is left as it is
GatherEnd(n) ==
    /\ pc[n] = "recv"
    /\ EndOfStream(ConnectedPipes(n, KindOf(GatherList(n)[idx[n]]))[GatherList(n)[idx[n]]].pipe)
    /\ pc' = [pc EXCEPT ![n] = "panicked"]
    /\ sem' = [s \in DOMAIN sem |-> IF s \in Range(upstream_semaphores[n]) THEN ChannelSemaphore_drop ELSE sem[s]]
    /\ upstream_semaphores' = [upstream_semaphores EXCEPT ![n] = <<>>]
    /\ UNCHANGED <<idx, run_node_context, downstream_semaphores, audio_frames, video_frames,
                   previous_black_frame, previous_silence_frame>>
    /\ UNCHANGED <<senders, receiver, semaphores>>
    /\ UNCHANGED <<ctxVars, procVars, ctlVars, histVars>>
    /\ UNCHANGED <<poolVars, regVars>>

FailureInit == InitFor({"black"})

FailureNext ==
    \/ \E r \in Requests(scenario) : get_pipe(r)
    \/ connect_pipe
    \/ \E n \in Nodes : GateFail(n)
    \/ \E n \in Nodes : GatePass(n)
    \/ \E n \in Nodes : GatherLock(n)
    \/ \E n \in Nodes : GatherRecv(n)
    \/ \E n \in Nodes : GatherEnd(n)
    \/ \E n \in Nodes : ProcessStart(n)
    \/ \E n \in Nodes : NodeSubmit(n)
    \/ \E n \in Nodes, o \in OutputIds : NodePush(n, o)
    \/ \E n \in Nodes : SendStep(n)
    \/ \E n \in Nodes : ProcessReturn(n)
    \/ \E n \in Nodes : process_frame_panics(n)
    \/ \E n \in Nodes : BarrierAwait(n)
    \/ \E n \in Nodes : AckUpstream(n)
    \/ \E o \in OutputIds : ChannelDropped(o)

FailureSpec == FailureInit /\ [][FailureNext]_vars

\* C25 (as stated): when the pipe of an input reports end-of-stream during
\* the gather step, the scheduler goes on with the gather loop: the input
\* has no received frame, so that it is handed black / silence in this
\* iteration's process_frame, its connection is removed, and the scheduler
\* task keeps running
C25_Original ==
    [][\A n \in Nodes :
          (/\ pc[n] = "recv"
           /\ EndOfStream(ConnectedPipes(n, KindOf(GatherList(n)[idx[n]]))[GatherList(n)[idx[n]]].pipe)
           /\ pc'[n] # pc[n]) =>
              /\ pc'[n] = "gather"
              /\ idx'[n] = idx[n] + 1
              /\ GatherList(n)[idx[n]] \notin DOMAIN video_frames'[n] \cup DOMAIN audio_frames'[n]
              /\ GatherList(n)[idx[n]] \notin DOMAIN connected_video_pipes'[n] \cup DOMAIN connected_audio_pipes'[n]]_vars

C30_Original ==
    [][\A n \in Nodes :
          /\ (sending[n] # NoSend /\ sending'[n] # sending[n]) =>
                LET p == senders[sending[n].out][sending[n].i]
                    new == semaphores'[n][Len(semaphores'[n])]
                IN
                /\ Len(semaphores'[n]) = Len(semaphores[n]) + 1
                /\ new \notin DOMAIN sem
                /\ receiver[p].open
                /\ receiver'[p].queue = Append(receiver[p].queue, [frame |-> sending[n].frame, semaphore |-> new])
          /\ (pc[n] = "process" /\ pc'[n] = "barrier") =>
                /\ Range(downstream_semaphores'[n]) = tick_sems[n]
                /\ Len(downstream_semaphores'[n]) = Cardinality(tick_sems[n])
                /\ semaphores'[n] = <<>>]_vars

\* ------------------------------------------------ io.rs: audio conversion

bytes_per_sample(audio_format) == IF audio_format \in {"I16", "U16"} THEN 2 ELSE 4

FullScale(audio_format) ==
    CASE audio_format = "I16" -> 32767
      [] audio_format = "U16" -> 65535
      [] OTHER -> 2147483647

MinI32 == -2147483647 - 1


\* byteorder LittleEndian::read_i16_into / read_i32_into (signed) and
\* read_u16_into (unsigned)
LE_read(b, signed) ==
    IF Len(b) = 2
    THEN LET u == b[1] + 256 * b[2] IN IF signed /\ u >= 32768 THEN u - 65536 ELSE u
    ELSE LET low == b[1] + 256 * b[2] + 65536 * b[3] IN
         IF b[4] >= 128 THEN ((b[4] - 256) * 16777216) + low ELSE (b[4] * 16777216) + low


\* binary fixed point for the f64 / f32 arithmetic of the conversions: a
\* magnitude is IntBits + FracBits bits, most significant first, the bit at
\* index i weighing 2^(IntBits - i)
Block == 11
IntBits == 3 * Block
FracBits == 8 * Block
FixLen == IntBits + FracBits

Pow2(k) == IF k >= 31 THEN 0 ELSE 2 ^ k

\* the bits of a magnitude as a sequence
Fix(f) == SubSeq(f, 1, FixLen)


\* a natural below 2^31 as a magnitude
FixOfNat(n) == Fix([i \in 1..FixLen |-> IF i <= IntBits /\ IntBits - i < 31 THEN (n \div Pow2(IntBits - i)) % 2 ELSE 0])

FixOne == FixOfNat(1)

\* the binary digits of r / m after the point (r < m), by long division,
\* and the remainder left after k digits
RECURSIVE FracDigits(_, _, _)
FracDigits(r, m, k) ==
    IF k = 0 THEN [bits |-> <<>>, r |-> r]
    ELSE LET bit == IF r >= m - r THEN 1 ELSE 0
             rest == FracDigits(IF bit = 1 THEN r - (m - r) ELSE r + r, m, k - 1)
         IN [bits |-> <<bit>> \o rest.bits, r |-> rest.r]

\* the same for t blocks of digits
RECURSIVE FracBlocks(_, _, _)
FracBlocks(r, m, t) ==
    IF t = 0 THEN [bits |-> <<>>, r |-> r]
    ELSE LET d == FracDigits(r, m, Block)
             rest == FracBlocks(d.r, m, t - 1)
         IN [bits |-> d.bits \o rest.bits, r |-> rest.r]


\* index of the leading one, 0 for zero
LeadingOne(v) == IF \A i \in 1..FixLen : v[i] = 0 THEN 0
                 ELSE CHOOSE i \in 1..FixLen : v[i] = 1 /\ \A j \in 1..(i - 1) : v[j] = 0

\* IEEE 754 round to nearest, ties to even, to p significant bits
\* (variant: truncation)
RoundNearestEven_truncating(v, sticky, p) ==
    LET last == LeadingOne(v) + p - 1 IN
    IF LeadingOne(v) = 0 \/ last >= FixLen THEN v
    ELSE Fix([i \in 1..FixLen |-> IF i <= last THEN v[i] ELSE 0])

RoundNearestEven(v, sticky, p) ==
    LET lead == LeadingOne(v)
        last == lead + p - 1
    IN
    IF lead = 0 \/ last >= FixLen THEN v
    ELSE LET rest == sticky \/ \E j \in (last + 2)..FixLen : v[j] = 1
             up == v[last + 1] = 1 /\ (rest \/ v[last] = 1)
             z == CHOOSE j \in 0..last : (j = 0 \/ v[j] = 0) /\ \A k \in (j + 1)..last : v[k] = 1
         IN Fix([i \in 1..FixLen |->
                IF i > last THEN 0
                ELSE IF ~up THEN v[i]
                ELSE IF i < z THEN v[i] ELSE IF i = z THEN 1 ELSE 0])

\* v * 2^k
FixShl(v, k) == Fix([i \in 1..FixLen |-> IF i + k <= FixLen THEN v[i + k] ELSE 0])


RECURSIVE CarryOver(_, _, _, _, _, _)
CarryOver(a, b, lo, hi, c, sub) ==
  \* a + b and a - b (a >= b), bit by bit from the last one: the carry
  \* (borrow) out of one bit, out of the bits lo..hi, and into bit i, worked
  \* out block by block
  LET NextCarry(p, q, c_, sub_) ==
          IF sub_ THEN (IF p - q - c_ < 0 THEN 1 ELSE 0) ELSE (IF p + q + c_ >= 2 THEN 1 ELSE 0)
  IN
      IF hi < lo THEN c
      ELSE IF NextCarry(a[hi], b[hi], c, sub) = 1 THEN CarryOver(a, b, lo, hi - 1, 1, sub)
      ELSE CarryOver(a, b, lo, hi - 1, 0, sub)

RECURSIVE BlockCarry(_, _, _, _)
BlockCarry(a, b, t, sub) ==
    IF t * Block >= FixLen THEN 0
    ELSE IF BlockCarry(a, b, t + 1, sub) = 1 THEN CarryOver(a, b, (t * Block) + 1, (t + 1) * Block, 1, sub)
    ELSE CarryOver(a, b, (t * Block) + 1, (t + 1) * Block, 0, sub)

CarryInto(a, b, i, sub) ==
    LET t == ((i - 1) \div Block) + 1 IN
    IF BlockCarry(a, b, t, sub) = 1 THEN CarryOver(a, b, i + 1, t * Block, 1, sub)
    ELSE CarryOver(a, b, i + 1, t * Block, 0, sub)


FixSub(a, b) == Fix([i \in 1..FixLen |-> (a[i] - b[i] - CarryInto(a, b, i, TRUE) + 2) % 2])

\* the natural written by the bits lo..hi of a magnitude (below 2^31)
RECURSIVE BitsValue(_, _, _)
BitsValue(v, lo, hi) == IF hi < lo THEN 0 ELSE (2 * BitsValue(v, lo, hi - 1)) + v[hi]

FixLess(a, b) == \E i \in 1..FixLen : a[i] < b[i] /\ \A j \in 1..(i - 1) : a[j] = b[j]


\* ToAudioF32::process_frame, one sample: "((*sample as f64) / MAX as f64)
\* as f32", and for U16 "((sample / MAX) * 2.0 - 1.0) as f32"
to_f32(sample, audio_format) ==
  \* "as f32" of an f64 magnitude
  LET as_f32(sign, v) ==
        \* an f32 (normal, in the range the fixed point covers) from a magnitude of
        \* at most 24 significant bits, and back; an f32 below the range counts as
        \* zero and one above it as 2^32, which saturates every integer format
        LET F32_of_fix(sign_, v_) ==
                LET lead == LeadingOne(v_) IN
                IF lead = 0 THEN [sign |-> sign_, exponent |-> 0, mantissa |-> 0]
                ELSE [sign |-> sign_, exponent |-> (IntBits - lead) + 127,
                      mantissa |-> BitsValue(v_, lead + 1, lead + 23)]
        IN
                           F32_of_fix(sign, RoundNearestEven(v, FALSE, 24))
  IN
    \* q + r / m, with sticky telling that digits beyond FracBits are not zero
    LET FixQuotient(q, r, m) ==
            LET d == FracBlocks(r, m, FracBits \div Block) IN
            [v |-> Fix([i \in 1..FixLen |-> IF i <= IntBits THEN FixOfNat(q)[i] ELSE d.bits[i - IntBits]]),
             sticky |-> d.r # 0]
    IN
        LET m == FullScale(audio_format)
            neg == sample < 0
            q == IF sample = MinI32 THEN 1 ELSE (IF neg THEN -sample ELSE sample) \div m
            r == IF sample = MinI32 THEN 1 ELSE (IF neg THEN -sample ELSE sample) % m
            quot == FixQuotient(q, r, m)
            d == RoundNearestEven(quot.v, quot.sticky, 53)
        IN
        IF audio_format = "U16"
        THEN LET twice == FixShl(d, 1) IN
             IF FixLess(twice, FixOne)
             THEN as_f32(1, RoundNearestEven(FixSub(FixOne, twice), FALSE, 53))
             ELSE as_f32(0, RoundNearestEven(FixSub(twice, FixOne), FALSE, 53))
        ELSE as_f32(IF neg THEN 1 ELSE 0, d)

\* FromAudioF32::process_frame, one sample: "f64::round(*sample as f64 *
\* MAX as f64) as iN", and for U16 first "(sample + 1.0) / 2.0" in f32
from_f32(f, audio_format) ==
  \* f64::round (half away from zero) followed by a saturating "as" cast to
  \* the integer type of the format
  LET round_as(sign, v, audio_format_) ==
          LET big == v[1] = 1 \/ v[2] = 1
              int == BitsValue(v, 3, IntBits)
              huge == big \/ (int = 2147483647 /\ v[IntBits + 1] = 1)
              n == IF huge THEN 2147483647 ELSE int + v[IntBits + 1]
              hi == FullScale(audio_format_)
          IN
          IF audio_format_ = "U16" THEN (IF sign = 1 THEN 0 ELSE IF huge \/ n > hi THEN hi ELSE n)
          ELSE IF sign = 0 THEN (IF huge \/ n > hi THEN hi ELSE n)
          ELSE IF huge \/ n > hi THEN -hi - 1 ELSE -n
  IN
    LET Fix_of_f32(f_) ==
          LET FixZero == Fix([i \in 1..FixLen |-> 0])
          IN
              LET lead == IntBits - (f_.exponent - 127) IN
              IF f_.exponent = 0 \/ lead + 23 > FixLen THEN FixZero
              ELSE IF lead < 1 THEN FixShl(FixOne, IntBits - 1)
              ELSE Fix([i \in 1..FixLen |->
                      IF i = lead THEN 1
                      ELSE IF i > lead /\ i <= lead + 23 THEN (f_.mantissa \div Pow2(23 - (i - lead))) % 2
                      ELSE 0])
    IN
      LET FixAdd(a, b) == Fix([i \in 1..FixLen |-> (a[i] + b[i] + CarryInto(a, b, i, FALSE)) % 2])
      IN
        \* v / 2^k, exact as long as no one is shifted out
        LET FixShr(v, k) == Fix([i \in 1..FixLen |-> IF i - k >= 1 THEN v[i - k] ELSE 0])
        IN
            LET k == IF audio_format = "I16" THEN 15 ELSE IF audio_format = "U16" THEN 16 ELSE 31
                v == Fix_of_f32(f)
                times(w) == RoundNearestEven(FixSub(FixShl(w, k), w), FALSE, 53)
            IN
            IF audio_format = "U16"
            THEN IF f.sign = 1 /\ FixLess(FixOne, v) THEN 0
                 ELSE LET sum == IF f.sign = 0 THEN FixAdd(v, FixOne) ELSE FixSub(FixOne, v)
                          half == FixShr(RoundNearestEven(sum, FALSE, 24), 1)
                      IN round_as(0, times(half), "U16")
            ELSE round_as(f.sign, times(v), audio_format)


RECURSIVE Interleaved(_, _)
Interleaved(samples, audio_format) ==
  \* the bytes of a sample as the producer of the frame writes them, and the
  \* sample number k of a byte buffer
  LET SampleBytes(sample, audio_format_) ==
        LET F32_to_le(f) ==
                <<f.mantissa % 256, (f.mantissa \div 256) % 256,
                  ((f.exponent % 2) * 128) + (f.mantissa \div 65536),
                  (f.sign * 128) + (f.exponent \div 2)>>
        IN
          \* byteorder LittleEndian::write_i16_into / write_u16_into / write_i32_into:
          \* the two's complement of the sample, least significant byte first
          LET LE_write(v, nbytes) ==
                  LET u == IF v >= 0 THEN v ELSE IF nbytes = 2 THEN v + 65536 ELSE (v - MinI32) IN
                  IF nbytes = 2 THEN <<u % 256, u \div 256>>
                  ELSE <<u % 256, (u \div 256) % 256, (u \div 65536) % 256,
                         (u \div 16777216) + (IF v < 0 THEN 128 ELSE 0)>>
          IN
              IF audio_format_ = "F32" THEN F32_to_le(sample) ELSE LE_write(sample, bytes_per_sample(audio_format_))
  IN
      IF samples = <<>> THEN <<>>
      ELSE SampleBytes(Head(samples), audio_format) \o Interleaved(Tail(samples), audio_format)

SampleAt(buffer, k, audio_format) ==
    SubSeq(buffer, ((k - 1) * bytes_per_sample(audio_format)) + 1, k * bytes_per_sample(audio_format))


AudioInit ==
  \* the converters that are built: a ToAudioF32 and a FromAudioF32 of the
  \* same format, and the I32 to U16 pair of the test from_i32_mono
  LET ConverterPairs ==
        \* AudioFormat, with the bytes of a sample and the full-scale constant the
        \* conversions divide and multiply by (i16::MAX, u16::MAX, i32::MAX)
        LET AudioFormats == {"I16", "U16", "I32", "F32"}
        IN
                          {<<f, f>> : f \in AudioFormats} \cup {<<"I32", "U16">>}
  IN
    LET AudioFrames(audio_format) ==
          \* the samples a frame is made of: runs of up to MaxSamples consecutive
          \* samples of a list that has the ends and the middle of each format's range
          LET ProbeSamples(audio_format_) ==
                  CASE audio_format_ = "I16" -> <<0, 1, -1, 255, -256, 12345, -12345, 16384, 32766, 32767, -32767, -32768>>
                    [] audio_format_ = "U16" -> <<0, 1, 32767, 32768, 65534, 65535>>
                    [] audio_format_ = "I32" -> <<0, 1, -1, 65536, 16777217, -16777217, 123456789, 1073741823, 2147483547,
                                                 2147483584, 2147483646, 2147483647, 2147483647, -2147483647, MinI32>>
                    [] OTHER -> <<[sign |-> 0, exponent |-> 0, mantissa |-> 0], [sign |-> 1, exponent |-> 0, mantissa |-> 0],
                                  [sign |-> 0, exponent |-> 127, mantissa |-> 0], [sign |-> 1, exponent |-> 127, mantissa |-> 0],
                                  [sign |-> 0, exponent |-> 126, mantissa |-> 0], [sign |-> 0, exponent |-> 125, mantissa |-> 2796203],
                                  [sign |-> 0, exponent |-> 126, mantissa |-> 8388607], [sign |-> 0, exponent |-> 0, mantissa |-> 1],
                                  [sign |-> 1, exponent |-> 20, mantissa |-> 12345], [sign |-> 0, exponent |-> 128, mantissa |-> 0]>>
          IN
              {SubSeq(ProbeSamples(audio_format), run[1], run[1] + run[2] - 1) :
                  run \in {pair \in (1..Len(ProbeSamples(audio_format))) \X (1..MaxSamples) :
                              pair[1] + pair[2] - 1 <= Len(ProbeSamples(audio_format))}}
    IN
        /\ InitRest({"reg"})
        /\ \E pair \in ConverterPairs : to_audio_f32 = pair[1] /\ from_audio_f32 = pair[2]
        /\ audio_samples \in AudioFrames(to_audio_f32)
        /\ audio_input = Interleaved(audio_samples, to_audio_f32)
        /\ loaded_audio = <<>>
        /\ audio_buffers = <<>>
        /\ consumed_buffer = <<>>
        /\ copied_frame = <<>>
        /\ io_pc = "new"

\* ToAudioF32::load_frame: input.to_vec()
load_frame ==
    /\ io_pc = "new"
    /\ loaded_audio' = audio_input
    /\ io_pc' = "loaded"
    /\ UNCHANGED <<to_audio_f32, from_audio_f32, audio_samples, audio_input, audio_buffers,
                   consumed_buffer, copied_frame>>
    /\ UNCHANGED <<nodeVars, poolVars, registryVars, apply_state_calls, panicked, tasks>>

\* ToAudioF32::process_frame, Mono: channel 0 takes every byte
\* (skip(0).step_by(1)), the bytes are read as buffer.len() /
\* bytes_per_sample little-endian samples and each is scaled to f32
ToAudioF32_process_frame ==
  \* an f32 is its IEEE 754 fields; LittleEndian::read_f32_into /
  \* write_f32_into move the 32 bits unchanged
  LET F32_from_le(b) ==
          [sign |-> b[4] \div 128, exponent |-> ((b[4] % 128) * 2) + (b[3] \div 128),
           mantissa |-> ((b[3] % 128) * 65536) + (b[2] * 256) + b[1]]
  IN
      /\ io_pc = "loaded"
      /\ audio_buffers' =
            [k \in 1..(Len(loaded_audio) \div bytes_per_sample(to_audio_f32)) |->
                IF to_audio_f32 = "F32" THEN F32_from_le(SampleAt(loaded_audio, k, "F32"))
                ELSE to_f32(LE_read(SampleAt(loaded_audio, k, to_audio_f32), to_audio_f32 # "U16"), to_audio_f32)]
      /\ io_pc' = "processed"
      /\ UNCHANGED <<to_audio_f32, from_audio_f32, audio_samples, audio_input, loaded_audio,
                     consumed_buffer, copied_frame>>
      /\ UNCHANGED <<nodeVars, poolVars, registryVars, apply_state_calls, panicked, tasks>>

\* FromAudioF32::process_frame, Mono: every sample of buffers[0] is scaled,
\* rounded and written little-endian at sample_index * num_bytes
FromAudioF32_process_frame ==
    /\ io_pc = "processed"
    /\ consumed_buffer' =
          Interleaved([k \in 1..Len(audio_buffers) |->
                          IF from_audio_f32 = "F32" THEN audio_buffers[k]
                          ELSE from_f32(audio_buffers[k], from_audio_f32)], from_audio_f32)
    /\ io_pc' = "consumed"
    /\ UNCHANGED <<to_audio_f32, from_audio_f32, audio_samples, audio_input, loaded_audio,
                   audio_buffers, copied_frame>>
    /\ UNCHANGED <<nodeVars, poolVars, registryVars, apply_state_calls, panicked, tasks>>

\* FromAudioF32::copy_frame: the buffer is taken out of the frame
copy_frame ==
    /\ io_pc = "consumed"
    /\ copied_frame' = consumed_buffer
    /\ consumed_buffer' = <<>>
    /\ io_pc' = "copied"
    /\ UNCHANGED <<to_audio_f32, from_audio_f32, audio_samples, audio_input, loaded_audio, audio_buffers>>
    /\ UNCHANGED <<nodeVars, poolVars, registryVars, apply_state_calls, panicked, tasks>>

AudioNext ==
    \/ load_frame
    \/ ToAudioF32_process_frame
    \/ FromAudioF32_process_frame
    \/ copy_frame

AudioSpec == AudioInit /\ [][AudioNext]_vars

\* ------------------------------------------------------------------- C28
\* a sample of magnitude at most 1 (at most full scale)
UnitSample(sample, audio_format) ==
    IF audio_format = "F32" THEN sample.exponent < 127 \/ (sample.exponent = 127 /\ sample.mantissa = 0)
    ELSE sample >= -FullScale(audio_format)

\* the sample number k of the bytes copy_frame returned
CopiedSample(k) == LE_read(SampleAt(copied_frame, k, from_audio_f32), from_audio_f32 # "U16")

\* after ToAudioF32 and FromAudioF32 of the same integer format, every input
\* sample of magnitude at most 1 comes back within steps quantisation steps
RoundTripWithin(audio_format, steps) ==
    (to_audio_f32 = audio_format /\ from_audio_f32 = audio_format) =>
        \A k \in DOMAIN audio_samples :
            UnitSample(audio_samples[k], audio_format) =>
                /\ CopiedSample(k) - audio_samples[k] <= steps
                /\ audio_samples[k] - CopiedSample(k) <= steps

\* one output sample per input sample; full scale I32 becomes 1.0 and
\* then full scale U16; an F32 sample of magnitude at most 1 comes back
\* bit for bit
MonoConversion ==
    /\ Len(audio_buffers) = Len(audio_samples)
    /\ Len(copied_frame) = Len(audio_samples) * bytes_per_sample(from_audio_f32)
    /\ (to_audio_f32 = "I32" /\ from_audio_f32 = "U16") =>
          \A k \in DOMAIN audio_samples :
              audio_samples[k] = 2147483647 =>
                  /\ audio_buffers[k] = [sign |-> 0, exponent |-> 127, mantissa |-> 0]
                  /\ SampleAt(copied_frame, k, "U16") = <<255, 255>>
    /\ (to_audio_f32 = "F32" /\ from_audio_f32 = "F32") =>
          \A k \in DOMAIN audio_samples :
              UnitSample(audio_samples[k], "F32") =>
                  SampleAt(copied_frame, k, "F32") = SampleAt(audio_input, k, "F32")

\* C28 (as stated): for the mono layout, full scale maps to full scale, there
\* is one output sample per input sample, and for I16, I32 and F32 the
\* round trip of a sample of magnitude at most 1 is the identity up to one
\* quantisation step of the format
C28_Original ==
    io_pc = "copied" => (MonoConversion /\ RoundTripWithin("I16", 1) /\ RoundTripWithin("I32", 1))

\* C28 (amended): the same, except that an I32 sample comes back within 64
\* quantisation steps, the precision of the 24 bit significand of the f32
\* in between
C28_RoundTripToF32Precision ==
    io_pc = "copied" => (MonoConversion /\ RoundTripWithin("I16", 1) /\ RoundTripWithin("I32", 64))

\* an I32 frame has come back with a sample more than one step away
C28_Witness ==
    /\ io_pc = "copied"
    /\ to_audio_f32 = "I32"
    /\ from_audio_f32 = "I32"
    /\ \E k \in DOMAIN audio_samples :
          /\ UnitSample(audio_samples[k], "I32")
          /\ CopiedSample(k) - audio_samples[k] > 1


\* ------------------------------------------------------------------ locks
\* The tokio Mutexes of PhaneronStateInner (owner "registry") and of the
\* NodeRunContextInner of a node (owner: the node), as <<owner, field>>.
\* An operation is the sequence of what it acquires and awaits:
\*   lock   the guard is kept until a later step drops it
\*   with   the guard is a temporary or is dropped before anything else is
\*          awaited (lock, use, unlock)
\*   await  a worker thread, a pipe, or the std Mutex of a channel
\* "drop" names the guards that go out of scope right after the step.

\* add_node takes the graphs lock first and the nodes lock after initialize
\* and apply_node_state (state.rs 367, 405)
\* (variant: the nodes lock is taken first)
add_node_order_nodes_first == <<"nodes", "graphs">>

add_node_order == <<"graphs", "nodes">>

Program(op) ==
    LET reg(field) == <<"registry", field>>
        ctx(n, field) == <<n, field>>
        Lock(l) == [do |-> "lock", lock |-> l, drop |-> {}]
        With(l) == [do |-> "with", lock |-> l, drop |-> {}]
        WithDrop(l, d) == [do |-> "with", lock |-> l, drop |-> d]
        Await(what) == [do |-> "await", lock |-> <<"await", what>>, drop |-> {}]
        AwaitDrop(what, d) == [do |-> "await", lock |-> <<"await", what>>, drop |-> d]
        \* PhaneronState::get_state (state.rs 575-662): one lock at a time
        get_state_locks ==
            <<With(reg("graphs")), With(reg("node_states")), With(reg("nodes")),
              With(reg("audio_outputs")), With(reg("audio_inputs")), With(reg("video_outputs")),
              With(reg("video_inputs")), With(reg("video_connections"))>>
        \* make_video_connection / make_audio_connection (state.rs 438-510),
        \* get_*_pipe and connect_*_pipe (node_context.rs 170-256), *_pipe_connected
        make_connection(kind) ==
            <<Lock(reg("nodes")), Lock(ctx(op.n, kind \o "_outputs")),
              AwaitDrop("channel", {reg("nodes"), ctx(op.n, kind \o "_outputs")}),
              With(reg("nodes")),
              Lock(ctx(op.m, kind \o "_input_ids")),
              WithDrop(ctx(op.m, "connected_" \o kind \o "_pipes"), {ctx(op.m, kind \o "_input_ids")}),
              With(reg(kind \o "_connections"))>>
        \* run_node up to the gate: get_run_process_frame_context
        \* (node_context.rs 77-98) and the tests of 567-610
        gate ==
            <<With(ctx(op.n, "audio_input_ids")), With(ctx(op.n, "audio_outputs")),
              With(ctx(op.n, "video_input_ids")), With(ctx(op.n, "video_outputs")),
              With(ctx(op.n, "connected_video_pipes"))>>
    IN
    CASE op.name = "add_node" ->
            \* state.rs 361-436; handle_node_event locks a list of the new context
            <<Lock(reg(add_node_order[1])), Await("thread"), Await("thread"),
              Lock(reg(add_node_order[2])),
              WithDrop(ctx(op.n, "video_outputs"), {reg("nodes"), reg("graphs")})>>
      [] op.name = "make_video_connection" -> make_connection("video")
      [] op.name = "make_audio_connection" -> make_connection("audio")
      [] op.name = "set_node_name" -> <<With(reg("nodes"))>>
      [] op.name = "set_node_state" ->
            \* state.rs 524-529, node_context.rs 100-102
            <<Lock(reg("nodes")), WithDrop(ctx(op.n, "pending_state"), {reg("nodes")})>>
      [] op.name = "get_state" -> get_state_locks
      [] op.name = "subscribe" ->
            \* state.rs 563-573; notify_state (732-738) locks the same way
            get_state_locks \o <<With(reg("subscribers_to_state"))>>
      [] op.name = "handle_node_events" ->
            \* state.rs 740-825: the map the event goes to
            <<With(reg(op.m))>>
      [] op.name = "run_node_gate_fails" ->
            \* the gate fails: drain the NodeEvents (handle_node_event)
            gate \o <<With(ctx(op.n, "video_input_ids"))>>
      [] OTHER ->
            \* "run_node": an iteration that passes the gate (node_context.rs
            \* 565-757): the pending state guard lives through apply_node_state,
            \* the guard of a connected pipe map through next_frame
            gate \o <<With(ctx(op.n, "connected_audio_pipes")),
                      Lock(ctx(op.n, "pending_state")), AwaitDrop("thread", {ctx(op.n, "pending_state")}),
                      Lock(ctx(op.n, "connected_audio_pipes")),
                      AwaitDrop("pipe", {ctx(op.n, "connected_audio_pipes")}),
                      Lock(ctx(op.n, "connected_video_pipes")),
                      AwaitDrop("pipe", {ctx(op.n, "connected_video_pipes")}),
                      Await("thread"), Await("semaphores"),
                      With(ctx(op.n, "video_input_ids"))>>

\* a task begins an operation: a control plane call on nodes P and C, an
\* iteration of the scheduler of C, an event received by handle_node_events
task_start(t) ==
    LET control ==
            {[name |-> nm, n |-> n, m |-> None] : nm \in {"add_node", "set_node_state"}, n \in {"P", "C"}}
            \cup {[name |-> "make_video_connection", n |-> "P", m |-> "C"]}
            \cup {[name |-> "get_state", n |-> None, m |-> None]}
        Operations(task) ==
            CASE task = "S" -> {[name |-> nm, n |-> "C", m |-> None] : nm \in {"run_node", "run_node_gate_fails"}}
              [] task = "H" -> {[name |-> "handle_node_events", n |-> None, m |-> f] :
                                   f \in {"node_states", "video_inputs", "video_outputs"}}
              [] task = "A2" -> control
              [] OTHER ->
                   control
                   \cup {[name |-> "make_audio_connection", n |-> "P", m |-> "C"]}
                   \cup {[name |-> nm, n |-> None, m |-> None] : nm \in {"set_node_name", "subscribe"}}
    IN
    /\ tasks[t] = Idle
    /\ \E op \in Operations(t) :
           tasks' = [tasks EXCEPT ![t] = [name |-> op.name, n |-> op.n, m |-> op.m, pos |-> 1, held |-> <<>>]]
    /\ UNCHANGED <<nodeVars, poolVars, registryVars, apply_state_calls, panicked, ioVars>>

\* the task that holds a lock, if any
Holders(l) == {u \in Tasks : \E j \in DOMAIN tasks[u].held : tasks[u].held[j] = l}

\* the next step of a task's operation: a lock is acquired when no task
\* holds it; after the last step the task is between operations again
task_step(t) ==
    /\ tasks[t] # Idle
    /\ LET program == Program(tasks[t])
           step == program[tasks[t].pos]
           now == IF step.do = "lock" THEN Append(tasks[t].held, step.lock) ELSE tasks[t].held
           kept == SelectSeq(now, LAMBDA l : l \notin step.drop)
       IN
       /\ step.do \in {"lock", "with"} => Holders(step.lock) = {}
       /\ tasks' = [tasks EXCEPT ![t] =
              IF tasks[t].pos = Len(program) THEN Idle
              ELSE [tasks[t] EXCEPT !.pos = @ + 1, !.held = kept]]
    /\ UNCHANGED <<nodeVars, poolVars, registryVars, apply_state_calls, panicked, ioVars>>

LockNext ==
    \/ \E t \in Tasks : task_start(t)
    \/ \E t \in Tasks : task_step(t)

LockSpec == InitFor({"reg"}) /\ [][LockNext]_vars


\* ---------------------------------------------------------------- C31
\* C31: when the scheduler task of a node exists, add_node has called
\* apply_state with the initial state and that call has returned, and every
\* output the node declared in initialize is registered in its runtime
\* context: the gate sees it, the context the scheduler snapshots for an
\* iteration has it, and no process_frame call precedes the initial
\* apply_state.
C31_InitialisedBeforeFirstIteration ==
    \A n \in Nodes :
        pc[n] # "absent" =>
            /\ apply_state_calls[n] # <<>>
            /\ apply_state_calls[n][1] = "s0"
            /\ DeclaredInInitialize(NodeType(n)) \subseteq Snapshot(n).video_outputs
            /\ node_event_rx[n] = <<>>
            /\ pc[n] # "gate" => DeclaredInInitialize(NodeType(n)) \subseteq run_node_context[n].video_outputs

\* P waits at its gate with the output of initialize registered, C has been
\* through an iteration
C31_Witness ==
    /\ pc["P"] = "gate"
    /\ "pv" \in video_outputs["P"]
    /\ GateFails("P")
    /\ started["C"] >= 1
    /\ apply_state_calls["C"][1] = "s0"

\* ---------------------------------------------------------------- C32
\* the registry's list of a kind for a node (audio_inputs .. video_outputs of
\* PhaneronStateInner): *_added pushes the id of every event of that kind
\* that handle_node_events has received
registry_list(n, type) ==
    LET sel == SelectSeq(SubSeq(state_tx, 1, node_event_handled), LAMBDA e : e.type = type /\ e.node = n)
    IN  [j \in 1..Len(sel) |-> sel[j].id]

\* handle_node_events is a task of its own that awaits the next event: with
\* an event in the channel it runs
ConnectionLiveSpec == ConnectionSpec /\ WF_vars(handle_node_events)

\* C32: every input and output in a runtime context has exactly one event in
\* the channel to the registry and none is there for anything else; the
\* registry's lists have no duplicates, its input lists are a prefix of the
\* runtime context's lists (declaration order), its output lists hold
\* outputs of the runtime context; and from some point on the registry's
\* lists are exactly what the runtime contexts hold.
C32_RegistryListsFollowContext ==
    LET Events(n, type) == SelectSeq(state_tx, LAMBDA e : e.type = type /\ e.node = n)
        NoDuplicates(q) == \A j, k \in DOMAIN q : q[j] = q[k] => j = k
        InOrder(n, type, ids) ==
            /\ Len(Events(n, type)) = Len(ids)
            /\ \A j \in DOMAIN ids : Events(n, type)[j].id = ids[j]
            /\ NoDuplicates(registry_list(n, type))
            /\ IsPrefix(registry_list(n, type), ids)
        AsSet(n, type, ids) ==
            /\ Len(Events(n, type)) = Cardinality(ids)
            /\ {Events(n, type)[j].id : j \in DOMAIN Events(n, type)} = ids
            /\ NoDuplicates(registry_list(n, type))
            /\ Range(registry_list(n, type)) \subseteq ids
        Same(n) ==
            /\ registry_list(n, "AudioInputAdded") = audio_input_ids[n]
            /\ registry_list(n, "VideoInputAdded") = video_input_ids[n]
            /\ Range(registry_list(n, "AudioOutputAdded")) = audio_outputs[n]
            /\ Range(registry_list(n, "VideoOutputAdded")) = video_outputs[n]
    IN
    /\ [](\A n \in Nodes :
            /\ InOrder(n, "AudioInputAdded", audio_input_ids[n])
            /\ InOrder(n, "VideoInputAdded", video_input_ids[n])
            /\ AsSet(n, "AudioOutputAdded", audio_outputs[n])
            /\ AsSet(n, "VideoOutputAdded", video_outputs[n]))
    /\ <>[](\A n \in Nodes : Same(n))

\* the ports P and M declared after their schedulers had started are in the
\* registry's lists
C32_Witness ==
    /\ registry_list("M", "AudioInputAdded") = <<"ma">>
    /\ registry_list("P", "AudioOutputAdded") = <<"pa">>
    /\ registry_list("M", "VideoInputAdded") = <<"mv">>
    /\ registry_list("P", "VideoOutputAdded") = <<"pv">>
    /\ node_event_handled = Len(state_tx)

\* ---------------------------------------------------------------- C33
\* C33: every task acquires the registry locks in the order graphs, node
\* map, per-kind I/O maps, and the locks of a node's runtime context after
\* them (the other registry locks are only ever held alone); the scheduler
\* holds no registry lock while it awaits a pipe, a worker thread or the
\* semaphores; and no set of tasks running add_node, make_*_connection,
\* set_node_state, set_node_name, subscribe / get_state, the registry's event
\* handlers and the scheduler wait for each other's locks in a cycle.
C33_LockOrderNoDeadlock ==
    LET Rank(l) ==
            CASE l[1] # "registry" -> 4
              [] l[2] = "graphs" -> 1
              [] l[2] = "nodes" -> 2
              [] l[2] \in {"audio_inputs", "video_inputs", "audio_outputs", "video_outputs"} -> 3
              [] OTHER -> 0
        Next_(t) == Program(tasks[t])[tasks[t].pos]
        Acquiring(t) == tasks[t] # Idle /\ Next_(t).do \in {"lock", "with"}
        \* what task t would hold once the step it is at has acquired its lock
        Wanted(t) == IF Acquiring(t) THEN Append(tasks[t].held, Next_(t).lock) ELSE tasks[t].held
        Ordered(h) ==
            \A i, j \in DOMAIN h :
                i < j => /\ h[i] # h[j]
                         /\ Rank(h[i]) # 0 /\ Rank(h[j]) # 0
                         /\ Rank(h[i]) <= Rank(h[j])
                         /\ Rank(h[i]) = Rank(h[j]) => Rank(h[i]) = 4
        Blocked(t) == Acquiring(t) /\ Holders(Next_(t).lock) # {}
    IN
    /\ \A t \in Tasks : Ordered(Wanted(t))
    /\ \A j \in DOMAIN Wanted("S") : Wanted("S")[j][1] # "registry"
    /\ \A D \in SUBSET Tasks :
           D # {} => \E t \in D : ~Blocked(t) \/ Holders(Next_(t).lock) \cap D = {}

\* make_video_connection holds the node map and an output map of P, add_node
\* holds the graphs and waits for the node map, the scheduler of C awaits a
\* pipe with the map of connected pipes locked, an event handler waits
C33_Witness ==
    /\ tasks["A1"].name = "make_video_connection"
    /\ tasks["A1"].held = << <<"registry", "nodes">>, <<"P", "video_outputs">> >>
    /\ tasks["A2"].name = "add_node" /\ tasks["A2"].n = "C" /\ tasks["A2"].pos = 4
    /\ tasks["A2"].held = << <<"registry", "graphs">> >>
    /\ tasks["S"].held = << <<"C", "connected_video_pipes">> >>
    /\ tasks["H"].name = "handle_node_events" /\ tasks["H"].m = "video_outputs"

\* ---------------------------------------------------------------- C34
\* C34 as stated: no two VideoBufferRefs that are alive at the same time
\* (each still held by some VideoFrame) carry the same slot index of the pool.
C34_Original ==
    \A r1, r2 \in DOMAIN video_buffer_refs :
        (/\ r1 # r2
         /\ video_buffer_refs[r1].holders >= 1
         /\ video_buffer_refs[r2].holders >= 1)
            => video_buffer_refs[r1].video_buffer_index # video_buffer_refs[r2].video_buffer_index

\* ---------------------------------------------------------------- C35
\* Scenario "twin": P{out pv} feeds both inputs ci and cj of C; scenario
\* "fan": pv feeds M and C. The connections are made at any time while the
\* schedulers run. The nodes are well behaved: every process_frame calls
\* submit(), pushes one frame on each output and returns.
\* what the task of node n (run_node and, inside it, process_frame) does
\* next; process_frame returns after one frame was pushed on each output
run_node(n) ==
    \/ GateFail(n)
    \/ GatePass(n)
    \/ GatherLock(n)
    \/ GatherRecv(n)
    \/ ProcessStart(n)
    \/ NodeSubmit(n)
    \/ \E o \in OutputIds : NodePush(n, o)
    \/ SendStep(n)
    \/ pushed[n] = DeclaredOutputs(n) /\ ProcessReturn(n)
    \/ BarrierAwait(n)
    \/ AckUpstream(n)

StaggeredNext ==
    \/ \E r \in Requests(scenario) : get_pipe(r)
    \/ connect_pipe
    \/ \E n \in Nodes : run_node(n)

\* every task is scheduled fairly: the run_node task of each node, and the
\* control plane's calls of make_video_connection
StaggeredSpec ==
    /\ InitFor({"twin", "fan"})
    /\ [][StaggeredNext]_vars
    /\ \A n \in Nodes : WF_vars(run_node(n))
    /\ WF_vars(\E r \in Requests(scenario) : get_pipe(r))
    /\ WF_vars(connect_pipe)

\* C35 as stated: once every declared input is connected and every declared
\* output has a subscriber, process_frame of every node is invoked again and
\* again (followed while no node has reached the number of invocations that
\* are looked at).
C35_Original ==
    \A n \in Nodes : \A k \in 0..(MaxTicks - 1) :
        []((/\ \A m \in Nodes : pc[m] # "absent" => ~GateFails(m)
            /\ \A m \in Nodes : started[m] < MaxTicks
            /\ pc[n] # "absent"
            /\ started[n] = k)
           => <>(started[n] > k))

\* ---------------------------------------------------------------- C36
\* C36 as stated: in every representation get_state builds (for
\* notify_state or for subscribe), every node id in the node list of a graph
\* is a key of its nodes map. The graphs of a representation are the graphs
\* map as it is when get_state is called (state.rs 585-593).
C36_Original ==
    [][\A r \in (Representations' \ Representations) :
           r # NoState =>
               \A g \in DOMAIN graphs' : \A n \in Range(graphs'[g]) : n \in DOMAIN r.nodes]_vars

\* ---------------------------------------------------------------- C37
\* a subscriber drops the Receiver that subscribe returned; the Sender stays
\* in subscribers_to_state
state_rx_drop(j) ==
    /\ j \in DOMAIN subscribers_to_state
    /\ state_rx[j] # Gone
    /\ state_rx' = [state_rx EXCEPT ![j] = Gone]
    /\ subscribers_to_state' = [subscribers_to_state EXCEPT ![j] = NoState]
    /\ UNCHANGED <<graphs, nodes, node_states, node_event_handled, state_event_rx, state_event_lagged,
                   state_representation, observed, last_add_node, set_node_state_calls>>
    /\ UNCHANGED <<nodeVars, poolVars>>
    /\ UNCHANGED <<apply_state_calls, panicked, ioVars, tasks>>

\* the registry with two subscribers, either of which may drop its receiver
SubscriberNext ==
    \/ \E call \in AddNodeCalls : add_node(call[1], call[2])
    \/ handle_node_events
    \/ handle_state
    \/ notify_state
    \/ subscribe
    \/ \E j \in DOMAIN subscribers_to_state : state_rx_recv(j)
    \/ \E j \in DOMAIN subscribers_to_state : state_rx_drop(j)

SubscriberSpec == InitFor({"subs"}) /\ [][SubscriberNext]_vars

\* C37 as stated: when a subscriber has dropped its receiver, notify_state
\* still sends each representation to every remaining subscriber, and the
\* task of handle_state keeps running.
C37_Original ==
    [][(state_representation \notin {NoState, Gone} /\ state_representation' # state_representation) =>
           /\ state_representation' = NoState
           /\ \A j \in DOMAIN subscribers_to_state :
                  state_rx[j] # Gone => subscribers_to_state'[j] = state_representation]_vars

\* ---------------------------------------------------------------- C38
\* C38 as stated: after a make_*_connection call that connect_*_pipe refused
\* (the input does not exist or is already connected), the subscriber list of
\* the output's channel is as before the call: the pipe the call subscribed
\* is not among the channel's senders.
C38_Original ==
    (last_connect # NoConnect /\ last_connect.result # "Ok") =>
        \A o \in OutputIds : last_connect.pipe \notin Range(senders[o])

\* ---------------------------------------------------------------- C39
\* C39: a subscriber whose pipe has been dropped never blocks the producer:
\* the turn of Channel::send for it does not wait, the semaphore made for it
\* (or dropped with the deliveries queued in it) is resolved without a
\* signal, and a producer in its barrier on such a semaphore goes on, so that
\* with only such semaphores left it acknowledges its upstream.
C39_DroppedSubscriberNeverBlocks ==
    LET Dropped(s) == ~receiver[s[1]].open
    IN
    /\ \A n \in Nodes :
           (sending[n] # NoSend /\ ~receiver[senders[sending[n].out][sending[n].i]].open)
               => ENABLED SendStep(n)
    /\ \A s \in DOMAIN sem : Dropped(s) => (sem[s] # "pending" /\ signals[s] = 0)
    /\ \A n \in Nodes :
           (pc[n] = "barrier" /\ \A j \in DOMAIN downstream_semaphores[n] : Dropped(downstream_semaphores[n][j]))
               => IF downstream_semaphores[n] # <<>> THEN ENABLED BarrierAwait(n) ELSE ENABLED AckUpstream(n)

\* M has sent a frame to the dropped pipe of the refused second connection
\* of mo, has come through its barrier and has signalled the semaphore of P
C39_Witness ==
    \E s \in DOMAIN sem :
        /\ ~receiver[s[1]].open
        /\ sem[s] # "pending"
        /\ Producer(s[1]) = "M"
        /\ completed["M"] >= 1
        /\ \E u \in DOMAIN sem : Producer(u[1]) = "P" /\ sem[u] = "signalled"

\* ---------------------------------------------------------------- C40
\* C40: in every iteration that reaches process_frame the black frame handed
\* to the node is at least 256 wide and 1 high, and at least as wide and as
\* high as every frame received in that iteration.
C40_BlackFrameCoversReceived ==
    \A n \in Nodes : \A j \in DOMAIN process_log[n] :
        LET e == process_log[n][j]
            received == {e.video_frames[i].frame : i \in {x \in DOMAIN e.video_frames : e.video_frames[x].id # "black"}}
        IN
        /\ e.black.frame.width >= 256
        /\ e.black.frame.height >= 1
        /\ \A f \in received : e.black.frame.width >= f.width /\ e.black.frame.height >= f.height

\* the consumer has received 512x2, 256x1 and 512x2: the second iteration
\* was handed the cached, larger frame, the third a frame as large as its input
C40_Witness ==
    /\ Len(process_log["C"]) = 3
    /\ process_log["C"][2].video_frames["ci"].frame.width = 256
    /\ process_log["C"][2].black.frame.width = 512
    /\ process_log["C"][3].video_frames["ci"].frame.width = 512
    /\ process_log["C"][3].black.frame.height = 2

====
